---- MODULE Spec2Model ----
(***************************************************************************)
(* A model of the protocol-definition core of chromedp/pdlgen: the PDL     *)
(* parser and writer (src/pdl/pdl.go), the reference resolver              *)
(* (src/pdl/types.go) and the fix-up pass (fixup.FixDomains).              *)
(*                                                                         *)
(* Text is modelled as a sequence of atoms.  An atom is an indivisible     *)
(* chunk of characters: a word such as "domain" or "CSS", a digit, or one  *)
(* of the separators " ", "\n", ".", "#", "'".  Every string operation of  *)
(* the code (TrimSpace, Split, TrimPrefix, the regular expressions, ...)   *)
(* is computed on these sequences.                                         *)
(***************************************************************************)
EXTENDS Integers, Sequences, FiniteSets, TLC

VARIABLES
    lines,      \* Parse: the lines of buf consumed so far
    ps,         \* Parse: the local variables of Parse (pdl, domain, item, ...)
    ret,        \* Parse: what Parse returned (model, error), once it has
    out,        \* the text written by Bytes from the returned model
    second,     \* the outcome of Parse on that text
    out2,       \* the text written by Bytes from the second model
    pdls,       \* Combine: the sources merged so far
    combined,   \* Combine: its local pdl
    rin,        \* Resolve: the arguments of the call
    rout,       \* Resolve: what pdl.Resolve (r) and gotpl.Resolve (g) returned, or their panic
    forig,      \* FixDomains: the domains as they were handed over
    fdomains,   \* FixDomains: the domains
    fi,         \* FixDomains: the index of the next domain of the loop
    file,       \* the file cacher: the file at the cache path
    now,        \* the file cacher: the time of the last call of Get
    got,        \* the file cacher: the last call of Get and what it returned
    protoDefs,  \* run: the domains of the protocol definitions, as loaded
    processed,  \* run: the domains that will be processed
    ri          \* run: the index of the next domain of the loop, then of FixDomains

parseVars == <<lines, ps, ret, out, second, out2>>
combineVars == <<pdls, combined>>
resolveVars == <<rin, rout>>
fixVars == <<forig, fdomains, fi>>
cacheVars == <<file, now, got>>
runVars == <<protoDefs, processed, ri>>
vars == <<lines, ps, ret, out, second, out2, pdls, combined, rin, rout, forig, fdomains, fi,
          file, now, got, protoDefs, processed, ri>>

----------------------------------------------------------------------------
(* Strings *)

SP == " "
NL == "\n"
EmptyStr == <<>>

\* unicode.IsSpace, on the separators of the alphabet
IsSpace(a) == a \in {SP, NL}

\* strings.HasPrefix
HasPrefix(s, p) == Len(s) >= Len(p) /\ SubSeq(s, 1, Len(p)) = p

\* strings.TrimPrefix
TrimPrefix(s, p) == IF HasPrefix(s, p) THEN SubSeq(s, Len(p) + 1, Len(s)) ELSE s

\* the number of leading atoms of s that satisfy IsSpace
LeadingSpace(s) ==
    CHOOSE k \in 0..Len(s) :
        /\ \A j \in 1..k : IsSpace(s[j])
        /\ (k = Len(s) \/ ~IsSpace(s[k + 1]))

\* the number of trailing atoms of s that satisfy IsSpace
TrailingSpace(s) ==
    CHOOSE k \in 0..Len(s) :
        /\ \A j \in (Len(s) - k + 1)..Len(s) : IsSpace(s[j])
        /\ (k = Len(s) \/ ~IsSpace(s[Len(s) - k]))

\* bytes.TrimRightFunc(s, unicode.IsSpace)
TrimRight(s) == SubSeq(s, 1, Len(s) - TrailingSpace(s))

\* strings.TrimSpace
TrimSpace(s) ==
    LET l == LeadingSpace(s)
    IN  IF l = Len(s) THEN EmptyStr ELSE SubSeq(s, l + 1, Len(s) - TrailingSpace(s))

\* strings.Split(s, sep) for a one-atom separator
RECURSIVE Split(_, _)
Split(s, sep) ==
    IF \A i \in 1..Len(s) : s[i] # sep
    THEN <<s>>
    ELSE LET k == CHOOSE i \in 1..Len(s) : s[i] = sep /\ \A j \in 1..(i - 1) : s[j] # sep
         IN  <<SubSeq(s, 1, k - 1)>> \o Split(SubSeq(s, k + 1, Len(s)), sep)

\* strings.SplitN(s, sep, 2)
SplitN2(s, sep) ==
    IF \A i \in 1..Len(s) : s[i] # sep
    THEN <<s>>
    ELSE LET k == CHOOSE i \in 1..Len(s) : s[i] = sep /\ \A j \in 1..(i - 1) : s[j] # sep
         IN  <<SubSeq(s, 1, k - 1), SubSeq(s, k + 1, Len(s))>>

\* strings.Join(ss, sep)
RECURSIVE Join(_, _)
Join(ss, sep) ==
    IF ss = <<>> THEN EmptyStr
    ELSE IF Len(ss) = 1 THEN ss[1]
    ELSE ss[1] \o <<sep>> \o Join(Tail(ss), sep)

\* strings.LastIndex(s, a) for a one-atom a, 1-based; 0 when absent
LastIndex(s, a) ==
    IF \A i \in 1..Len(s) : s[i] # a THEN 0
    ELSE CHOOSE i \in 1..Len(s) : s[i] = a /\ \A j \in (i + 1)..Len(s) : s[j] # a

\* strings.Replace(s, a, "", -1) for a one-atom a
RemoveAll(s, a) == SelectSeq(s, LAMBDA x : x # a)

\* the concatenation of a sequence of strings
RECURSIVE Concat(_)
Concat(ss) == IF ss = <<>> THEN EmptyStr ELSE Head(ss) \o Concat(Tail(ss))

Digits == <<"0", "1", "2", "3", "4", "5", "6", "7", "8", "9">>
IsDigit(a) == \E i \in 1..10 : Digits[i] = a
DigitVal(a) == (CHOOSE i \in 1..10 : Digits[i] = a) - 1

\* strconv.Atoi on a run of digits
RECURSIVE Atoi(_)
Atoi(s) == IF s = <<>> THEN 0 ELSE 10 * Atoi(SubSeq(s, 1, Len(s) - 1)) + DigitVal(s[Len(s)])

\* strconv.Itoa on a natural number
RECURSIVE Itoa(_)
Itoa(n) == IF n < 10 THEN <<Digits[n + 1]>> ELSE Itoa(n \div 10) \o <<Digits[(n % 10) + 1]>>

----------------------------------------------------------------------------
(* The domain model (src/pdl/types.go, src/pdl/pdl.go) *)

\* a Go slice: nil, or a (possibly empty) sequence of elements
NilSlice == [nil |-> TRUE, s |-> <<>>]
MakeSlice == [nil |-> FALSE, s |-> <<>>]
AppendSlice(sl, e) == [nil |-> FALSE, s |-> Append(sl.s, e)]

\* a nil *Redirect
NoRedirect == [nil |-> TRUE, Domain |-> EmptyStr, Name |-> EmptyStr]

\* the zero value of Type
ZeroType ==
    [ Type |-> EmptyStr, Name |-> EmptyStr, Description |-> EmptyStr,
      Experimental |-> FALSE, Deprecated |-> FALSE, Optional |-> FALSE,
      Ref |-> EmptyStr, Items |-> <<>>,
      Parameters |-> NilSlice, Returns |-> NilSlice, Properties |-> NilSlice,
      Redirect |-> NoRedirect, Enum |-> NilSlice,
      NoExpose |-> FALSE, NoResolve |-> FALSE ]

\* the TypeEnum values
TypeAny == <<"any">>
TypeArray == <<"array">>
TypeBoolean == <<"boolean">>
TypeInteger == <<"integer">>
TypeNumber == <<"number">>
TypeObject == <<"object">>
TypeString == <<"string">>
TypeTimestamp == <<"timestamp">>

\* the keys of the primitiveTypes map
primitiveTypes ==
    {TypeInteger, TypeNumber, TypeBoolean, TypeString, TypeObject, TypeAny, TypeArray}

\* assignType with isArray = false
assignScalar(item, typ) ==
    LET t == IF typ = <<"enum">> THEN <<"string">> ELSE typ
    IN  IF t \in primitiveTypes THEN [item EXCEPT !.Type = t] ELSE [item EXCEPT !.Ref = t]

\* an assignType that takes no notice of isArray
assignTypeFlat(item, typ, isArray) == assignScalar(item, typ)

\* assignType
assignType(item, typ, isArray) ==
    IF isArray
    THEN [item EXCEPT !.Type = TypeArray, !.Items = <<assignScalar(ZeroType, typ)>>]
    ELSE assignScalar(item, typ)

\* a nil *Version
NoVersion == [nil |-> TRUE, Major |-> 0, Minor |-> 0]

\* new(PDL)
NewPDL == [Copyright |-> EmptyStr, Version |-> NoVersion, Domains |-> <<>>]

----------------------------------------------------------------------------
(* The line patterns of Parse *)

\* the number of spaces a line starts with
Indent(line) ==
    CHOOSE k \in 0..Len(line) :
        /\ \A j \in 1..k : line[j] = SP
        /\ (k = Len(line) \/ line[k + 1] # SP)

\* the space-separated fields of a line after its indent
Fields(line) == Split(SubSeq(line, Indent(line) + 1, Len(line)), SP)

Drop(toks, n) == SubSeq(toks, n + 1, Len(toks))

\* the leading run of digits of a token
DigitRun(tok) ==
    LET k == CHOOSE n \in 0..Len(tok) :
                 /\ \A j \in 1..n : IsDigit(tok[j])
                 /\ (n = Len(tok) \/ ~IsDigit(tok[n + 1]))
    IN  SubSeq(tok, 1, k)

\* a phrase of keywords, each followed by one space, at the head of toks
RECURSIVE ConsumePhrase(_, _)
ConsumePhrase(toks, phrase) ==
    IF phrase = <<>> THEN [ok |-> TRUE, rest |-> toks]
    ELSE IF Len(toks) >= 2 /\ toks[1] = <<Head(phrase)>>
         THEN ConsumePhrase(Tail(toks), Tail(phrase))
         ELSE [ok |-> FALSE, rest |-> <<>>]

\* the optional groups mods, group i taken when flags[i]
RECURSIVE ConsumeMods(_, _, _)
ConsumeMods(toks, mods, flags) ==
    IF mods = <<>> THEN [ok |-> TRUE, rest |-> toks]
    ELSE IF Head(flags)
         THEN LET r == ConsumePhrase(toks, Head(mods))
              IN  IF r.ok THEN ConsumeMods(r.rest, Tail(mods), Tail(flags)) ELSE r
         ELSE ConsumeMods(toks, Tail(mods), Tail(flags))

\* the choices of n optional groups, and the order in which a backtracking
\* match tries them: a group is tried taken before it is tried skipped
Flags(n) == [1..n -> BOOLEAN]
RECURSIVE FlagRank(_)
FlagRank(f) ==
    IF Len(f) = 0 THEN 0
    ELSE 2 * FlagRank(SubSeq(f, 1, Len(f) - 1)) + (IF f[Len(f)] THEN 1 ELSE 0)
FirstFlags(S) == CHOOSE f \in S : \A g \in S : FlagRank(g) <= FlagRank(f)

NoMatch == [ok |-> FALSE]

ExpDep == <<(<<"experimental">>), (<<"deprecated">>)>>

\* domainRE: ^(experimental )?(deprecated )?domain (.*)
MatchDomain(line) ==
    LET toks == Fields(line)
        Try(f) == LET r == ConsumeMods(toks, ExpDep, f)
                  IN  r.ok /\ Len(r.rest) >= 2 /\ r.rest[1] = <<"domain">>
        S == {f \in Flags(2) : Try(f)}
    IN  IF Indent(line) = 0 /\ S # {}
        THEN LET f == FirstFlags(S)
                 r == ConsumeMods(toks, ExpDep, f)
             IN  [ok |-> TRUE, exp |-> f[1], dep |-> f[2], name |-> Join(Drop(r.rest, 1), SP)]
        ELSE NoMatch

\* dependsRE: ^  depends on ([^\s]+)
MatchDepends(line) ==
    LET toks == Fields(line)
    IN  IF /\ Indent(line) = 2 /\ Len(toks) >= 3
           /\ toks[1] = <<"depends">> /\ toks[2] = <<"on">> /\ toks[3] # EmptyStr
        THEN [ok |-> TRUE, name |-> toks[3]]
        ELSE NoMatch

\* typeRE: ^  (experimental )?(deprecated )?type (.*) extends (array of )?([^\s]+)
MatchType(line) ==
    LET toks == Fields(line)
        \* with "extends" as field k of the fields after the modifiers
        Arr(r, k) == /\ Len(r) >= k + 3 /\ r[k + 1] = <<"array">>
                     /\ r[k + 2] = <<"of">> /\ r[k + 3] # EmptyStr
        Plain(r, k) == Len(r) >= k + 1 /\ r[k + 1] # EmptyStr
        Ks(r) == {k \in 3..Len(r) : r[k] = <<"extends">> /\ (Arr(r, k) \/ Plain(r, k))}
        Try(f) == LET r == ConsumeMods(toks, ExpDep, f)
                  IN  r.ok /\ Len(r.rest) >= 2 /\ r.rest[1] = <<"type">> /\ Ks(r.rest) # {}
        S == {f \in Flags(2) : Try(f)}
    IN  IF Indent(line) = 2 /\ S # {}
        THEN LET f == FirstFlags(S)
                 r == ConsumeMods(toks, ExpDep, f).rest
                 k == CHOOSE x \in Ks(r) : \A y \in Ks(r) : y <= x
             IN  [ok |-> TRUE, exp |-> f[1], dep |-> f[2],
                  name |-> Join(SubSeq(r, 2, k - 1), SP),
                  arr |-> Arr(r, k),
                  typ |-> IF Arr(r, k) THEN r[k + 3] ELSE r[k + 1]]
        ELSE NoMatch

\* commandEventRE: ^  (experimental )?(deprecated )?(command|event) (.*)
MatchCommandEvent(line) ==
    LET toks == Fields(line)
        Try(f) == LET r == ConsumeMods(toks, ExpDep, f)
                  IN  r.ok /\ Len(r.rest) >= 2 /\ r.rest[1] \in {<<"command">>, <<"event">>}
        S == {f \in Flags(2) : Try(f)}
    IN  IF Indent(line) = 2 /\ S # {}
        THEN LET f == FirstFlags(S)
                 r == ConsumeMods(toks, ExpDep, f).rest
             IN  [ok |-> TRUE, exp |-> f[1], dep |-> f[2], kind |-> r[1],
                  name |-> Join(Drop(r, 1), SP)]
        ELSE NoMatch

MemberMods == <<(<<"experimental">>), (<<"deprecated">>), (<<"optional">>), (<<"array", "of">>)>>

\* memberRE: ^      (experimental )?(deprecated )?(optional )?(array of )?([^\s]+) ([^\s]+)
MatchMember(line) ==
    LET toks == Fields(line)
        Try(f) == LET r == ConsumeMods(toks, MemberMods, f)
                  IN  r.ok /\ Len(r.rest) >= 2 /\ r.rest[1] # EmptyStr /\ r.rest[2] # EmptyStr
        S == {f \in Flags(4) : Try(f)}
    IN  IF Indent(line) = 6 /\ S # {}
        THEN LET f == FirstFlags(S)
                 r == ConsumeMods(toks, MemberMods, f).rest
             IN  [ok |-> TRUE, exp |-> f[1], dep |-> f[2], opt |-> f[3], arr |-> f[4],
                  typ |-> r[1], name |-> r[2]]
        ELSE NoMatch

\* paramsRetsPropsRE: ^    (parameters|returns|properties)
MatchParamsRetsProps(line) ==
    LET toks == Fields(line)
    IN  IF /\ Indent(line) = 4 /\ toks[1] # EmptyStr
           /\ toks[1][1] \in {"parameters", "returns", "properties"}
        THEN [ok |-> TRUE, kind |-> toks[1][1]]
        ELSE NoMatch

\* enumRE: ^    enum
MatchEnum(line) ==
    LET toks == Fields(line)
    IN  [ok |-> Indent(line) = 4 /\ toks[1] # EmptyStr /\ toks[1][1] = "enum"]

\* versionRE: ^version
MatchVersion(line) == [ok |-> line # EmptyStr /\ line[1] = "version"]

\* majorRE, minorRE: ^  (major|minor) (\d+)
MatchNumber(line, kw) ==
    LET toks == Fields(line)
    IN  IF /\ Indent(line) = 2 /\ Len(toks) >= 2
           /\ toks[1] = <<kw>> /\ DigitRun(toks[2]) # EmptyStr
        THEN [ok |-> TRUE, digits |-> DigitRun(toks[2])]
        ELSE NoMatch

\* redirectRE: ^    redirect ([^\s]+)
MatchRedirect(line) ==
    LET toks == Fields(line)
    IN  IF /\ Indent(line) = 4 /\ Len(toks) >= 2
           /\ toks[1] = <<"redirect">> /\ toks[2] # EmptyStr
        THEN [ok |-> TRUE, domain |-> toks[2]]
        ELSE NoMatch

\* redirectCommentRE: ^Use '([^']+)' instead$
MatchRedirectComment(desc) ==
    LET n == Len(desc)
    IN  IF /\ n >= 7
           /\ SubSeq(desc, 1, 3) = <<"Use", SP, "'">>
           /\ SubSeq(desc, n - 2, n) = <<"'", SP, "instead">>
           /\ \A j \in 4..(n - 3) : desc[j] # "'"
        THEN [ok |-> TRUE, name |-> SubSeq(desc, 4, n - 3)]
        ELSE NoMatch

\* enumLiteralRE: ^      (  )?[^\s]+$
MatchEnumLiteral(line) ==
    LET toks == Fields(line)
    IN  [ok |-> Indent(line) \in {6, 8} /\ Len(toks) = 1 /\ toks[1] # EmptyStr]

----------------------------------------------------------------------------
(* Parse (src/pdl/pdl.go) *)

\* A pointer held by Parse.  k = "nil": the nil pointer; "item": the Type i of
\* list `list` of domain d; "sub": the slice `field` of that Type; "member":
\* member m of that slice; "orphan": a member of a slice that the Type no
\* longer holds.
NilPtr == [k |-> "nil", d |-> 0, list |-> "", i |-> 0, field |-> "", m |-> 0]
ItemPtr(d, list, i) == [k |-> "item", d |-> d, list |-> list, i |-> i, field |-> "", m |-> 0]
SubPtr(it, field) == [it EXCEPT !.k = "sub", !.field = field]
MemberPtr(sub, m) == [sub EXCEPT !.k = "member", !.m = m]
OrphanPtr == [NilPtr EXCEPT !.k = "orphan"]

NoError == [nil |-> TRUE, idx |-> 0, line |-> EmptyStr]

\* the local variables of Parse before the first line; domain is the index of
\* the current *Domain in pdl.Domains (0: nil), i the index of the next line
ParseStart ==
    [ pdl |-> NewPDL, domain |-> 0, item |-> NilPtr, subitems |-> NilPtr,
      enumliterals |-> NilPtr, desc |-> EmptyStr, copyright |-> FALSE,
      clearDesc |-> FALSE, i |-> 0, status |-> "run", err |-> NoError ]

\* a nil pointer dereference: the Go runtime panics
Panic(st) == [st EXCEPT !.status = "panic"]

\* the error with the line counted from 1
UnknownTokenOneBased(st, line) ==
    [st EXCEPT !.status = "error", !.err = [nil |-> FALSE, idx |-> st.i + 1, line |-> line]]

\* fmt.Errorf("line %d unknown token %q", i, line)
UnknownToken(st, line) ==
    [st EXCEPT !.status = "error", !.err = [nil |-> FALSE, idx |-> st.i, line |-> line]]

OnDomain(st, m) ==
    LET dom == [ Domain |-> m.name, Experimental |-> m.exp, Deprecated |-> m.dep,
                 Description |-> TrimSpace(st.desc), Dependencies |-> <<>>,
                 Types |-> <<>>, Commands |-> <<>>, Events |-> <<>> ]
    IN  [st EXCEPT !.pdl.Domains = Append(@, dom), !.domain = Len(st.pdl.Domains) + 1]

OnDepends(st, m) ==
    IF st.domain = 0 THEN Panic(st)
    ELSE [st EXCEPT !.pdl.Domains[st.domain].Dependencies = Append(@, m.name)]

\* a declaration put at the head of list `list` of the current domain
DeclarePrepend(st, list, t) ==
    IF st.domain = 0 THEN Panic(st)
    ELSE [st EXCEPT !.pdl.Domains[st.domain][list] = <<t>> \o @,
                    !.item = ItemPtr(st.domain, list, 1)]

\* a declaration appended to list `list` of the current domain
Declare(st, list, t) ==
    IF st.domain = 0 THEN Panic(st)
    ELSE [st EXCEPT !.pdl.Domains[st.domain][list] = Append(@, t),
                    !.item = ItemPtr(st.domain, list, Len(st.pdl.Domains[st.domain][list]) + 1)]

OnType(st, m) ==
    LET t == [ZeroType EXCEPT !.Name = m.name, !.Experimental = m.exp,
                              !.Deprecated = m.dep, !.Description = TrimSpace(st.desc)]
    IN  Declare(st, "Types", assignType(t, m.typ, m.arr))

OnCommandEvent(st, m) ==
    LET t == [ZeroType EXCEPT !.Name = m.name, !.Experimental = m.exp,
                              !.Deprecated = m.dep, !.Description = TrimSpace(st.desc)]
    IN  Declare(st, IF m.kind = <<"command">> THEN "Commands" ELSE "Events", t)

OnMember(st, m) ==
    LET t == [ZeroType EXCEPT !.Name = m.name, !.Experimental = m.exp,
                              !.Deprecated = m.dep, !.Description = TrimSpace(st.desc),
                              !.Optional = m.opt]
        a == assignType(t, m.typ, m.arr)
        param == IF m.typ = <<"enum">> THEN [a EXCEPT !.Enum = MakeSlice] ELSE a
        sub == st.subitems
    IN  IF sub.k = "nil" THEN Panic(st)
        ELSE [st EXCEPT
                !.pdl.Domains[sub.d][sub.list][sub.i][sub.field] = AppendSlice(@, param),
                !.enumliterals =
                    IF m.typ = <<"enum">>
                    THEN MemberPtr(sub, Len(st.pdl.Domains[sub.d][sub.list][sub.i][sub.field].s) + 1)
                    ELSE @]

\* the field of Type named by a section marker
SectionField(kind) ==
    CASE kind = "parameters" -> "Parameters"
      [] kind = "returns" -> "Returns"
      [] kind = "properties" -> "Properties"

OnParamsRetsProps(st, m) ==
    LET it == st.item
        field == SectionField(m.kind)
        sub == SubPtr(it, field)
        el == st.enumliterals
    IN  IF it.k = "nil" THEN Panic(st)
        ELSE [st EXCEPT
                !.pdl.Domains[it.d][it.list][it.i][field] = MakeSlice,
                !.subitems = sub,
                \* the members of the replaced slice are no longer in the model
                !.enumliterals = IF el.k = "member" /\ [el EXCEPT !.k = "sub", !.m = 0] = sub
                                 THEN OrphanPtr ELSE @]

OnEnum(st) ==
    LET it == st.item
    IN  IF it.k = "nil" THEN Panic(st)
        ELSE [st EXCEPT !.pdl.Domains[it.d][it.list][it.i].Enum = MakeSlice,
                        !.enumliterals = it]

OnVersion(st) == [st EXCEPT !.pdl.Version = [nil |-> FALSE, Major |-> 0, Minor |-> 0]]

OnMajor(st, m) ==
    IF st.pdl.Version.nil THEN Panic(st)
    ELSE [st EXCEPT !.pdl.Version.Major = Atoi(m.digits)]

OnMinor(st, m) ==
    IF st.pdl.Version.nil THEN Panic(st)
    ELSE [st EXCEPT !.pdl.Version.Minor = Atoi(m.digits)]

OnRedirect(st, m) ==
    LET it == st.item
        c == MatchRedirectComment(st.desc)
        name == IF c.ok
                THEN SubSeq(c.name, LastIndex(c.name, ".") + 1, Len(c.name))
                ELSE EmptyStr
    IN  IF it.k = "nil" THEN Panic(st)
        ELSE [st EXCEPT !.pdl.Domains[it.d][it.list][it.i].Redirect =
                            [nil |-> FALSE, Domain |-> m.domain, Name |-> name]]

OnEnumLiteral(st, trimmed) ==
    LET el == st.enumliterals
    IN  CASE el.k = "nil" -> Panic(st)
          [] el.k = "orphan" -> st
          [] el.k = "item" ->
                [st EXCEPT !.pdl.Domains[el.d][el.list][el.i].Enum = AppendSlice(@, trimmed)]
          [] el.k = "member" ->
                [st EXCEPT !.pdl.Domains[el.d][el.list][el.i][el.field].s[el.m].Enum =
                               AppendSlice(@, trimmed)]

\* the patterns in the order Parse tries them; the first that matches decides
Classify(line) ==
    IF MatchDomain(line).ok THEN "domain"
    ELSE IF MatchDepends(line).ok THEN "depends"
    ELSE IF MatchType(line).ok THEN "type"
    ELSE IF MatchCommandEvent(line).ok THEN "commandEvent"
    ELSE IF MatchMember(line).ok THEN "member"
    ELSE IF MatchParamsRetsProps(line).ok THEN "paramsRetsProps"
    ELSE IF MatchEnum(line).ok THEN "enum"
    ELSE IF MatchVersion(line).ok THEN "version"
    ELSE IF MatchNumber(line, "major").ok THEN "major"
    ELSE IF MatchNumber(line, "minor").ok THEN "minor"
    ELSE IF MatchRedirect(line).ok THEN "redirect"
    ELSE IF MatchEnumLiteral(line).ok THEN "enumLiteral"
    ELSE "unknown"

\* the handling of a line of class c
Handle(st, line, c) ==
    CASE c = "domain" -> OnDomain(st, MatchDomain(line))
      [] c = "depends" -> OnDepends(st, MatchDepends(line))
      [] c = "type" -> OnType(st, MatchType(line))
      [] c = "commandEvent" -> OnCommandEvent(st, MatchCommandEvent(line))
      [] c = "member" -> OnMember(st, MatchMember(line))
      [] c = "paramsRetsProps" -> OnParamsRetsProps(st, MatchParamsRetsProps(line))
      [] c = "enum" -> OnEnum(st)
      [] c = "version" -> OnVersion(st)
      [] c = "major" -> OnMajor(st, MatchNumber(line, "major"))
      [] c = "minor" -> OnMinor(st, MatchNumber(line, "minor"))
      [] c = "redirect" -> OnRedirect(st, MatchRedirect(line))
      [] c = "enumLiteral" -> OnEnumLiteral(st, TrimSpace(line))
      [] c = "unknown" -> UnknownToken(st, line)

\* a handling that goes on to the end of the loop body after the transition
DispatchFallsThrough(st, line) == UnknownToken(Handle(st, line, Classify(line)), line)

\* the handling of a line that is neither a comment nor blank
Dispatch(st, line) == Handle(st, line, Classify(line))

\* a loop head that keeps the description whatever the toggle says
ClearDescNever(st) == [st EXCEPT !.clearDesc = FALSE]

\* "clear the description if toggled"
ClearDesc(st) ==
    [st EXCEPT !.desc = IF st.clearDesc THEN EmptyStr ELSE @, !.clearDesc = FALSE]

\* "add to desc": a comment line, trimmed
AddDesc(st, trimmed) ==
    [st EXCEPT !.desc = (IF @ # EmptyStr THEN @ \o <<NL>> ELSE @) \o TrimSpace(Tail(trimmed))]

\* the first line that is not a comment fixes the copyright; the description
\* is cleared before the next line
MarkCopyright(st) ==
    [st EXCEPT !.pdl.Copyright = IF st.copyright THEN @ ELSE st.desc,
               !.copyright = TRUE, !.clearDesc = TRUE]

\* the body of the loop of Parse for a line and its trimmed text
ParseBody(st, line, trimmed) ==
    IF HasPrefix(trimmed, <<"#">>) THEN AddDesc(st, trimmed)
    ELSE IF trimmed = EmptyStr THEN MarkCopyright(st)
    ELSE Dispatch(MarkCopyright(st), line)

\* the loop goes on to the next line unless Parse has ended
Advance(st) == IF st.status = "run" THEN [st EXCEPT !.i = @ + 1] ELSE st

\* one iteration of the loop of Parse, on line number st.i
ParseStep(st, line) == Advance(ParseBody(ClearDesc(st), line, TrimSpace(line)))

\* the loop of Parse over the lines ls, from the state st
RECURSIVE ParseLoop(_, _)
ParseLoop(st, ls) ==
    IF ls = <<>> \/ st.status # "run" THEN st ELSE ParseLoop(ParseStep(st, Head(ls)), Tail(ls))

NoModel == [nil |-> TRUE, pdl |-> NewPDL]

\* what Parse returns once its loop has ended in state st: (pdl, nil) after
\* the last line, (nil, err) at an unknown token; a panic returns nothing
ParseReturn(st) ==
    CASE st.status = "run" -> [kind |-> "ok", model |-> [nil |-> FALSE, pdl |-> st.pdl], err |-> NoError]
      [] st.status = "error" -> [kind |-> "error", model |-> NoModel, err |-> st.err]
      [] st.status = "panic" -> [kind |-> "panic", model |-> NoModel, err |-> NoError]

\* Parse(buf)
Parse(buf) == ParseReturn(ParseLoop(ParseStart, Split(buf, NL)))

----------------------------------------------------------------------------
(* Bytes (src/pdl/pdl.go) *)

\* the atoms in the byte order of their text, for strings.Compare
ByteOrder ==
    << NL, SP, "#", "'", ".", "0", "1", "2", "3", "4", "5", "6", "7", "8", "9",
       "A", "B", "C", "T", "Use", "X", "any", "array", "b", "binary", "bogus", "boolean",
       "c", "command", "depends", "deprecated", "domain", "e", "enum", "event",
       "experimental", "extends", "instead", "integer", "major", "minor", "number",
       "object", "of", "on", "optional", "parameters", "properties", "r", "red",
       "redirect", "returns", "string", "text", "type", "version", "x", "y" >>
AtomRank(a) == CHOOSE i \in 1..Len(ByteOrder) : ByteOrder[i] = a

\* strings.Compare(a, b) < 0
RECURSIVE StrLess(_, _)
StrLess(a, b) ==
    IF b = EmptyStr THEN FALSE
    ELSE IF a = EmptyStr THEN TRUE
    ELSE IF Head(a) = Head(b) THEN StrLess(Tail(a), Tail(b))
    ELSE AtomRank(Head(a)) < AtomRank(Head(b))

\* the less functions handed to sort.Slice, on the indices i and j of s
LessDomain(s, i, j) == StrLess(s[i].Domain, s[j].Domain)
LessType(s, i, j) == StrLess(s[i].Name, s[i].Name)
Less(s, i, j, by) == IF by = "Domain" THEN LessDomain(s, i, j) ELSE LessType(s, i, j)

Swap(s, i, j) == [s EXCEPT ![i] = s[j], ![j] = s[i]]

\* sort.Slice on at most 12 elements: an insertion sort
RECURSIVE Sink(_, _, _)
Sink(s, j, by) ==
    IF j > 1 /\ Less(s, j, j - 1, by) THEN Sink(Swap(s, j, j - 1), j - 1, by) ELSE s
RECURSIVE InsertionSort(_, _, _)
InsertionSort(s, i, by) ==
    IF i > Len(s) THEN s ELSE InsertionSort(Sink(s, i, by), i + 1, by)
SortSlice(s, by) == InsertionSort(s, 2, by)

Spaces(n) == [k \in 1..n |-> SP]
Ln(s) == s \o <<NL>>
Opt(b, s) == IF b THEN <<s>> ELSE <<>>

\* writeDesc
writeDesc(desc, indent) ==
    IF desc = EmptyStr THEN EmptyStr
    ELSE LET ls == Split(desc, NL)
         IN  Concat([k \in 1..Len(ls) |->
                 Ln(indent \o <<"#">> \o (IF ls[k] # EmptyStr THEN <<SP>> \o ls[k] ELSE EmptyStr))])

\* writeDecl; extra is the sequence of the trailing arguments
writeDecl(typ, name, desc, indent, experimental, deprecated, optional, extra) ==
    LET v == Opt(experimental, <<"experimental">>) \o Opt(deprecated, <<"deprecated">>)
             \o Opt(optional, <<"optional">>) \o <<typ, name>>
    IN  writeDesc(desc, indent) \o Ln(indent \o Join(v \o extra, SP))

\* writeRedirect
writeRedirect(typ, indent) ==
    IF typ.Redirect.nil THEN EmptyStr
    ELSE (IF typ.Redirect.Name # EmptyStr
          THEN Ln(indent \o <<"#", SP, "Use", SP, "'">> \o typ.Redirect.Domain \o <<".">>
                  \o typ.Redirect.Name \o <<"'", SP, "instead">>)
          ELSE EmptyStr)
         \o Ln(indent \o <<"redirect", SP>> \o typ.Redirect.Domain)

\* the type written for member p by writeProps
propRef(p) ==
    LET r0 == IF p.Ref # EmptyStr THEN p.Ref ELSE p.Type
        r1 == IF p.Type = TypeArray
              THEN <<"array", SP, "of", SP>>
                   \o (IF p.Items[1].Ref = EmptyStr THEN p.Items[1].Type ELSE p.Items[1].Ref)
              ELSE r0
    IN  IF Len(p.Enum.s) # 0 THEN <<"enum">> ELSE r1

\* writeProps
writeProps(typ, indent, props) ==
    IF Len(props.s) = 0 THEN EmptyStr
    ELSE Ln(indent \o <<typ>>)
         \o Concat([k \in 1..Len(props.s) |->
                LET p == props.s[k]
                IN  writeDecl(propRef(p), p.Name, p.Description, indent \o Spaces(2),
                              p.Experimental, p.Deprecated, p.Optional, <<>>)
                    \o Concat([e \in 1..Len(p.Enum.s) |-> Ln(indent \o Spaces(4) \o p.Enum.s[e])])])

\* the text after "extends" for type typ
typeExtends(typ) ==
    IF typ.Type = TypeArray
    THEN <<"array", SP, "of", SP>>
         \o (IF typ.Items = <<>> THEN typ.Type
             ELSE IF typ.Items[1].Type = EmptyStr THEN typ.Items[1].Ref ELSE typ.Items[1].Type)
    ELSE typ.Type

writeType(typ) ==
    writeDecl(<<"type">>, typ.Name, typ.Description, Spaces(2), typ.Experimental,
              typ.Deprecated, typ.Optional, <<(<<"extends">>), typeExtends(typ)>>)
    \o writeRedirect(typ, Spaces(2))
    \o (IF Len(typ.Enum.s) # 0
        THEN Ln(Spaces(4) \o <<"enum">>)
             \o Concat([e \in 1..Len(typ.Enum.s) |-> Ln(Spaces(5) \o <<SP>> \o typ.Enum.s[e])])
        ELSE EmptyStr)
    \o writeProps("properties", Spaces(4), typ.Properties)
    \o <<NL>>

writeCommand(c) ==
    writeDecl(<<"command">>, c.Name, c.Description, Spaces(2), c.Experimental,
              c.Deprecated, c.Optional, <<>>)
    \o writeRedirect(c, Spaces(4))
    \o writeProps("parameters", Spaces(4), c.Parameters)
    \o writeProps("returns", Spaces(4), c.Returns)
    \o <<NL>>

writeEvent(e) ==
    writeDecl(<<"event">>, e.Name, e.Description, Spaces(2), e.Experimental,
              e.Deprecated, e.Optional, <<>>)
    \o writeRedirect(e, Spaces(4))
    \o writeProps("parameters", Spaces(4), e.Parameters)
    \o <<NL>>

writeDomain(d) ==
    LET types == SortSlice(d.Types, "Name")
        commands == SortSlice(d.Commands, "Name")
        events == SortSlice(d.Events, "Name")
    IN  writeDecl(<<"domain">>, d.Domain, d.Description, EmptyStr, d.Experimental,
                  d.Deprecated, FALSE, <<>>)
        \o Concat([k \in 1..Len(d.Dependencies) |->
               Ln(Spaces(2) \o <<"depends", SP, "on", SP>> \o d.Dependencies[k])])
        \o <<NL>>
        \o Concat([k \in 1..Len(types) |-> writeType(types[k])])
        \o Concat([k \in 1..Len(commands) |-> writeCommand(commands[k])])
        \o Concat([k \in 1..Len(events) |-> writeEvent(events[k])])

\* (*PDL).Bytes
Bytes(pdl) ==
    LET domains == SortSlice(pdl.Domains, "Domain")
        buf == (IF pdl.Copyright # EmptyStr THEN writeDesc(pdl.Copyright, EmptyStr) \o <<NL>>
                ELSE EmptyStr)
               \o (IF ~pdl.Version.nil
                   THEN Ln(<<"version">>)
                        \o Ln(Spaces(2) \o <<"major", SP>> \o Itoa(pdl.Version.Major))
                        \o Ln(Spaces(2) \o <<"minor", SP>> \o Itoa(pdl.Version.Minor))
                        \o <<NL>>
                   ELSE EmptyStr)
               \o Concat([k \in 1..Len(domains) |-> writeDomain(domains[k])])
    IN  TrimRight(buf) \o <<NL>>

----------------------------------------------------------------------------
(* Combine (src/pdl/pdl.go) *)

\* the version of the merged model after source p
CombineVersion(cur, p) ==
    LET v == IF cur.nil THEN [nil |-> FALSE, Major |-> 0, Minor |-> 0] ELSE cur
    IN  IF p.Version.nil THEN v
        ELSE IF v.Major < p.Version.Major
             THEN [v EXCEPT !.Major = p.Version.Major, !.Minor = p.Version.Minor]
        ELSE IF v.Minor < p.Version.Minor
             THEN [v EXCEPT !.Minor = p.Version.Minor]
        ELSE v

\* an iteration that puts the domains of source p in front
CombineStepFront(pdl, p) ==
    [ Copyright |-> IF pdl.Copyright = EmptyStr THEN p.Copyright ELSE pdl.Copyright,
      Version |-> CombineVersion(pdl.Version, p),
      Domains |-> p.Domains \o pdl.Domains ]

\* one iteration of the loop of Combine, on source p
CombineStep(pdl, p) ==
    [ Copyright |-> IF pdl.Copyright = EmptyStr THEN p.Copyright ELSE pdl.Copyright,
      Version |-> CombineVersion(pdl.Version, p),
      Domains |-> pdl.Domains \o p.Domains ]

----------------------------------------------------------------------------
(* Resolve (src/pdl/types.go) *)

\* strings.ToLower on the atoms of domain names
LowerTable ==
    << <<"DOM", "dom">>, <<"Page", "page">>, <<"CSS", "css">>, <<"Input", "input">>,
       <<"Accessibility", "accessibility">>, <<"NoSuchDomain", "nosuchdomain">> >>
LowerAtom(a) ==
    IF \E k \in 1..Len(LowerTable) : LowerTable[k][1] = a
    THEN LowerTable[CHOOSE k \in 1..Len(LowerTable) : LowerTable[k][1] = a][2]
    ELSE a
ToLower(s) == [k \in 1..Len(s) |-> LowerAtom(s[k])]

\* snaker.ForceCamelIdentifier: every word starts with a capital, the known
\* initialisms are written in capitals, and what is no letter or digit goes
CamelTable ==
    << <<"Id", "ID">>, <<"id", "ID">>, <<"kind", "Kind">>, <<"kinds", "Kinds">>,
       <<"c", "C">>, <<"e", "E">>, <<"r", "R">>, <<"x", "X">>, <<"source", "Source">>,
       <<"modifiers", "Modifiers">>, <<"node", "Node">> >>
CamelAtom(a) ==
    IF \E k \in 1..Len(CamelTable) : CamelTable[k][1] = a
    THEN CamelTable[CHOOSE k \in 1..Len(CamelTable) : CamelTable[k][1] = a][2]
    ELSE a
ForceCamelIdentifier(s) ==
    LET w == SelectSeq(s, LAMBDA a : a # ".")
    IN  [k \in 1..Len(w) |-> CamelAtom(w[k])]

\* the index of the first element of seq whose field has the value v, as a
\* loop that breaks at the first match finds it; 0 when there is none
IndexOf(seq, field, v) ==
    IF \E k \in 1..Len(seq) : seq[k][field] = v
    THEN CHOOSE k \in 1..Len(seq) :
            seq[k][field] = v /\ \A j \in 1..(k - 1) : seq[j][field] # v
    ELSE 0

\* a prefix that falls back on the target domain when the current domain is cdp
ResolvePrefixFallThrough(dtyp, typ, d, sharedFunc) ==
    IF <<dtyp, typ>> \in sharedFunc /\ d.Domain # <<"cdp">> THEN <<"cdp", ".">>
    ELSE IF dtyp # d.Domain THEN ToLower(dtyp) \o <<".">>
    ELSE EmptyStr

\* the prefix of the display name
ResolvePrefix(dtyp, typ, d, sharedFunc) ==
    IF <<dtyp, typ>> \in sharedFunc
    THEN (IF d.Domain # <<"cdp">> THEN <<"cdp", ".">> ELSE EmptyStr)
    ELSE IF dtyp # d.Domain THEN ToLower(dtyp) \o <<".">>
    ELSE EmptyStr

\* a scan that hands back a nil type instead of the panic
ResolveScanNil(ref, d, domains, sharedFunc, dtyp, typ, z) ==
    IF z = 0 \/ IndexOf(domains[z].Types, "Name", typ) = 0
    THEN [ panic |-> FALSE, msg |-> EmptyStr, dtyp |-> dtyp, z |-> 0, j |-> 0,
           name |-> ResolvePrefix(dtyp, typ, d, sharedFunc) \o ForceCamelIdentifier(typ) ]
    ELSE [ panic |-> FALSE, msg |-> EmptyStr, dtyp |-> dtyp, z |-> z,
           j |-> IndexOf(domains[z].Types, "Name", typ),
           name |-> ResolvePrefix(dtyp, typ, d, sharedFunc) \o ForceCamelIdentifier(typ) ]

\* the scan of Resolve: z is the index of the first domain named dtyp (0 when
\* there is none) and the result points at the first type of it named typ
ResolveScan(ref, d, domains, sharedFunc, dtyp, typ, z) ==
    IF z = 0 \/ IndexOf(domains[z].Types, "Name", typ) = 0
    THEN [ panic |-> TRUE,
           msg |-> <<"could not resolve type ">> \o ref \o <<" in domain ">> \o d.Domain,
           dtyp |-> EmptyStr, z |-> 0, j |-> 0, name |-> EmptyStr ]
    ELSE [ panic |-> FALSE, msg |-> EmptyStr, dtyp |-> dtyp, z |-> z,
           j |-> IndexOf(domains[z].Types, "Name", typ),
           name |-> ResolvePrefix(dtyp, typ, d, sharedFunc) \o ForceCamelIdentifier(typ) ]

\* the index of the first domain named dtyp that holds a type named typ, 0
\* when there is none
IndexHolding(domains, dtyp, typ) ==
    IF \E z \in 1..Len(domains) :
          domains[z].Domain = dtyp /\ IndexOf(domains[z].Types, "Name", typ) # 0
    THEN CHOOSE z \in 1..Len(domains) :
            /\ domains[z].Domain = dtyp /\ IndexOf(domains[z].Types, "Name", typ) # 0
            /\ \A y \in 1..(z - 1) :
                  ~(domains[y].Domain = dtyp /\ IndexOf(domains[y].Types, "Name", typ) # 0)
    ELSE 0

\* a Resolve that goes on to the later domains of the target name
ResolveSplitAnyDomain(ref, d, domains, sharedFunc, n) ==
    IF Len(n) = 2
    THEN ResolveScan(ref, d, domains, sharedFunc, n[1], n[2],
                     IndexHolding(domains, n[1], n[2]))
    ELSE ResolveScan(ref, d, domains, sharedFunc, d.Domain, n[1],
                     IndexHolding(domains, d.Domain, n[1]))
\* Resolve, with the reference split in n; sharedFunc is the set of the
\* (domain, name) pairs for which the predicate holds.  The result is a panic
\* with its message, or the domain type, the type (type j of domain z) and
\* the display name
ResolveSplit(ref, d, domains, sharedFunc, n) ==
    IF Len(n) = 2
    THEN ResolveScan(ref, d, domains, sharedFunc, n[1], n[2],
                     IndexOf(domains, "Domain", n[1]))
    ELSE ResolveScan(ref, d, domains, sharedFunc, d.Domain, n[1],
                     IndexOf(domains, "Domain", d.Domain))

\* Resolve
Resolve(ref, d, domains, sharedFunc) ==
    ResolveSplit(ref, d, domains, sharedFunc, SplitN2(ref, "."))

----------------------------------------------------------------------------
(* Resolve of package gotpl (src/unnamed/part_001) *)

\* a prefix that keeps the case of the domain name
GotplPrefixKeepsCase(dtyp, typ, d, sharedFunc) ==
    IF <<dtyp, typ>> \in sharedFunc
    THEN (IF d.Domain # <<"cdp">> THEN <<"cdp", ".">> ELSE EmptyStr)
    ELSE IF dtyp # d.Domain THEN dtyp \o <<".">>
    ELSE EmptyStr

\* the string s before the name is appended to it
GotplPrefix(dtyp, typ, d, sharedFunc) ==
    IF <<dtyp, typ>> \in sharedFunc
    THEN (IF d.Domain # <<"cdp">> THEN <<"cdp", ".">> ELSE EmptyStr)
    ELSE IF dtyp # d.Domain THEN ToLower(dtyp) \o <<".">>
    ELSE EmptyStr

\* the loop over domains, which stops at the first domain named dtyp: the
\* index of that domain, 0 when there is none
GotplDomain(domains, dtyp) ==
    IF \E z \in 1..Len(domains) : domains[z].Domain = dtyp
    THEN CHOOSE z \in 1..Len(domains) :
            /\ domains[z].Domain = dtyp
            /\ \A y \in 1..(z - 1) : domains[y].Domain # dtyp
    ELSE 0

\* the loop over z.Types, which stops at the first type named typ: the index
\* of that type, 0 when `other` stays nil
GotplOther(domains, z, typ) ==
    IF z # 0 /\ \E j \in 1..Len(domains[z].Types) : domains[z].Types[j].Name = typ
    THEN CHOOSE j \in 1..Len(domains[z].Types) :
            /\ domains[z].Types[j].Name = typ
            /\ \A i \in 1..(j - 1) : domains[z].Types[i].Name # typ
    ELSE 0

\* the end of Resolve, after the two loops
GotplReturn(ref, d, sharedFunc, dtyp, typ, z, j) ==
    IF j = 0
    THEN [ panic |-> TRUE,
           msg |-> <<"could not resolve type ">> \o ref \o <<" in domain ">> \o d.Domain,
           dtyp |-> EmptyStr, z |-> 0, j |-> 0, name |-> EmptyStr ]
    ELSE [ panic |-> FALSE, msg |-> EmptyStr, dtyp |-> dtyp, z |-> z, j |-> j,
           name |-> GotplPrefix(dtyp, typ, d, sharedFunc) \o ForceCamelIdentifier(typ) ]

\* Resolve of package gotpl, with the reference split in n
GotplSplit(ref, d, domains, sharedFunc, n) ==
    IF Len(n) = 2
    THEN GotplReturn(ref, d, sharedFunc, n[1], n[2], GotplDomain(domains, n[1]),
                     GotplOther(domains, GotplDomain(domains, n[1]), n[2]))
    ELSE GotplReturn(ref, d, sharedFunc, d.Domain, n[1], GotplDomain(domains, d.Domain),
                     GotplOther(domains, GotplDomain(domains, d.Domain), n[1]))

\* Resolve of package gotpl
GotplResolve(ref, d, domains, sharedFunc) ==
    GotplSplit(ref, d, domains, sharedFunc, SplitN2(ref, "."))

----------------------------------------------------------------------------
(* FixDomains (src/unnamed/part_009, package fixup) *)

\* strings.TrimSuffix
TrimSuffix(s, p) ==
    IF Len(s) >= Len(p) /\ SubSeq(s, Len(s) - Len(p) + 1, Len(s)) = p
    THEN SubSeq(s, 1, Len(s) - Len(p))
    ELSE s

\* the properties FixDomains adds to a type: neither resolved nor exposed
Hidden(name, ref, desc) ==
    [ZeroType EXCEPT !.Name = name, !.Ref = ref, !.Description = desc,
                     !.NoResolve = TRUE, !.NoExpose = TRUE]

domNodeIDRef == <<"NodeID">>
domNodeRef == <<"*Node">>

\* case "Accessibility"
FixAccessibility(d) ==
    [d EXCEPT !.Types = [k \in 1..Len(@) |-> [@[k] EXCEPT !.Name = RemoveAll(@, "AX")]]]

\* case "CSS"
FixCSS(d) ==
    [d EXCEPT !.Types = [k \in 1..Len(@) |-> LET t == @[k] IN
        IF t.Name = <<"CSS", "ComputedStyleProperty">>
        THEN [t EXCEPT !.Name = <<"ComputedProperty">>] ELSE t]]

\* the properties added to DOM.Node
NodeProperties ==
    << Hidden(<<"Parent">>, domNodeRef, <<"Parent", SP, "node", ".">>),
       Hidden(<<"Invalidated">>, <<"chan struct{}">>, <<"Invalidated", SP, "channel", ".">>),
       Hidden(<<"State">>, <<"NodeState">>, <<"Node", SP, "state", ".">>),
       Hidden(EmptyStr, <<"sync", ".", "RWMutex">>, <<"Read", SP, "write", SP, "mutex", ".">>) >>

\* the type added to DOM
NodeTypeType ==
    [ZeroType EXCEPT
        !.Name = <<"NodeType">>, !.Type = TypeInteger,
        !.Description = <<"Node", SP, "type", ".">>,
        !.Enum = [nil |-> FALSE,
                  s |-> << <<"Element">>, <<"Attribute">>, <<"Text">>, <<"CDATA">>,
                           <<"EntityReference">>, <<"Entity">>, <<"ProcessingInstruction">>,
                           <<"Comment">>, <<"Document">>, <<"DocumentType">>,
                           <<"DocumentFragment">>, <<"Notation">> >>]]

\* append(t.Properties, props...)
AppendProperties(t, props) == [t EXCEPT !.Properties = [nil |-> FALSE, s |-> @.s \o props]]

\* case "DOM"
FixDOM(d) ==
    [d EXCEPT !.Types = [k \in 1..(Len(@) + 1) |-> LET t == Append(@, NodeTypeType)[k] IN
        IF t.Name = <<"Node">> THEN AppendProperties(t, NodeProperties) ELSE t]]

\* the type added to Input
ModifierType ==
    [ZeroType EXCEPT
        !.Name = <<"Modifier">>, !.Type = TypeInteger,
        !.Description = <<"Input", SP, "key", SP, "modifier", SP, "type", ".">>,
        !.Enum = [nil |-> FALSE,
                  s |-> << <<"None">>, <<"Alt">>, <<"Ctrl">>, <<"Meta">>, <<"Shift">> >>]]

\* case "Input"
FixInput(d) ==
    [d EXCEPT !.Types = [k \in 1..(Len(@) + 1) |-> LET t == Append(@, ModifierType)[k] IN
        IF t.Name = <<"GestureSourceType">> THEN [t EXCEPT !.Name = <<"GestureType">>]
        ELSE IF t.Name = <<"TimeSinceEpoch">> THEN [t EXCEPT !.Type = TypeTimestamp]
        ELSE t]]

\* the type added to Inspector
DetachReasonType ==
    [ZeroType EXCEPT
        !.Name = <<"DetachReason">>, !.Type = TypeString,
        !.Description = <<"Detach", SP, "reason", ".">>,
        !.Enum = [nil |-> FALSE,
                  s |-> << <<"target_closed">>, <<"canceled_by_user">>,
                           <<"replaced_with_devtools">>,
                           <<"Render", SP, "process", SP, "gone", ".">> >>]]

\* the first parameter of event e named reason becomes a DetachReason
FixReason(e, k) ==
    IF k = 0 THEN e
    ELSE [e EXCEPT !.Parameters.s[k].Ref = <<"DetachReason">>,
                   !.Parameters.s[k].Type = EmptyStr]

\* the change to the first event named detached, event k of d
FixDetached(d, k) ==
    IF k = 0 THEN d
    ELSE [d EXCEPT !.Events[k] =
            FixReason(@, IndexOf(@.Parameters.s, "Name", <<"reason">>))]

\* case "Inspector"
FixInspector(d) ==
    FixDetached([d EXCEPT !.Types = Append(@, DetachReasonType)],
                IndexOf(d.Events, "Name", <<"detached">>))

\* case "Network"
FixNetwork(d) ==
    [d EXCEPT !.Types = [k \in 1..Len(@) |-> LET t == @[k] IN
        IF t.Name \in {<<"TimeSinceEpoch">>, <<"MonotonicTime">>}
        THEN [t EXCEPT !.Type = TypeTimestamp]
        ELSE IF t.Name = <<"Headers">>
        THEN [t EXCEPT !.Type = TypeAny, !.Ref = <<"map[string]interface{}">>]
        ELSE t]]

\* the properties added to Page.Frame
FrameProperties ==
    << Hidden(<<"State">>, <<"FrameState">>, <<"Frame", SP, "state", ".">>),
       Hidden(<<"Root">>, domNodeRef, <<"Frame", SP, "document", SP, "root", ".">>),
       Hidden(<<"Nodes">>, <<"map[">> \o domNodeIDRef \o <<"]">> \o domNodeRef,
              <<"Frame", SP, "nodes", ".">>),
       Hidden(EmptyStr, <<"sync", ".", "RWMutex">>, <<"Read", SP, "write", SP, "mutex", ".">>) >>

\* Frame.id and Frame.parentId become references to FrameId
FixFrameIds(t) ==
    [t EXCEPT !.Properties.s = [k \in 1..Len(@) |-> LET p == @[k] IN
        IF p.Name \in {<<"id">>, <<"parentId">>}
        THEN [p EXCEPT !.Ref = <<"FrameId">>, !.Type = EmptyStr] ELSE p]]

\* case "Page"
FixPage(d) ==
    [d EXCEPT !.Types = [k \in 1..Len(@) |-> LET t == @[k] IN
        IF t.Name = <<"Frame">> THEN FixFrameIds(AppendProperties(t, FrameProperties)) ELSE t]]

\* case "Runtime"
FixRuntime(d) ==
    [d EXCEPT !.Types = [k \in 1..Len(@) |-> LET t == @[k] IN
        IF t.Name = <<"Timestamp">> THEN [t EXCEPT !.Type = TypeTimestamp] ELSE t]]

\* the switch on d.Domain at the head of the loop of FixDomains
DomainFixes(d) ==
    CASE d.Domain = <<"Accessibility">> -> FixAccessibility(d)
      [] d.Domain = <<"CSS">> -> FixCSS(d)
      [] d.Domain = <<"DOM">> -> FixDOM(d)
      [] d.Domain = <<"Input">> -> FixInput(d)
      [] d.Domain = <<"Inspector">> -> FixInspector(d)
      [] d.Domain = <<"Network">> -> FixNetwork(d)
      [] d.Domain = <<"Page">> -> FixPage(d)
      [] d.Domain = <<"Runtime">> -> FixRuntime(d)
      [] OTHER -> d

\* the Type literal that fixupEnumParameter and the cases of
\* convertObjectProperties build from p: its name, description and Optional
Rebuilt(p) ==
    [ZeroType EXCEPT !.Name = p.Name, !.Description = p.Description,
                     !.Optional = p.Optional]

\* enumRefMap: the fully qualified parameter name, and the ref
enumRefMap ==
    <<
       << <<"Animation", ".", "Animation", ".", "type">>, <<"Type">> >>,
       << <<"Console", ".", "Console", "Message", ".", "level">>, <<"MessageLevel">> >>,
       << <<"Console", ".", "Console", "Message", ".", "source">>, <<"MessageSource">> >>,
       << <<"CSS", ".", "CSS", "Media", ".", "source">>, <<"MediaSource">> >>,
       << <<"CSS", ".", "forcePseudoState", ".", "forcedPseudoClasses">>, <<"PseudoClass">> >>,
       << <<"Debugger", ".", "setPauseOnExceptions", ".", "state">>, <<"ExceptionsState">> >>,
       << <<"Emulation", ".", "ScreenOrientation", ".", "type">>, <<"OrientationType">> >>,
       << <<"Emulation", ".", "setTouchEmulationEnabled", ".", "configuration">>, <<"EnabledConfiguration">> >>,
       << <<"Input", ".", "dispatchKeyEvent", ".", "type">>, <<"KeyType">> >>,
       << <<"Input", ".", "dispatchMouseEvent", ".", "button">>, <<"ButtonType">> >>,
       << <<"Input", ".", "dispatchMouseEvent", ".", "type">>, <<"MouseType">> >>,
       << <<"Input", ".", "dispatchTouchEvent", ".", "type">>, <<"TouchType">> >>,
       << <<"Input", ".", "emulateTouchFromMouseEvent", ".", "button">>, <<"ButtonType">> >>,
       << <<"Input", ".", "emulateTouchFromMouseEvent", ".", "type">>, <<"MouseType">> >>,
       << <<"Input", ".", "TouchPoint", ".", "state">>, <<"TouchState">> >>,
       << <<"Log", ".", "Log", "Entry", ".", "level">>, <<"Level">> >>,
       << <<"Log", ".", "Log", "Entry", ".", "source">>, <<"Source">> >>,
       << <<"Log", ".", "ViolationSetting", ".", "name">>, <<"Violation">> >>,
       << <<"Network", ".", "Request", ".", "mixedContentType">>, <<"MixedContentType">> >>,
       << <<"Network", ".", "Request", ".", "referrerPolicy">>, <<"ReferrerPolicy">> >>,
       << <<"Page", ".", "startScreencast", ".", "format">>, <<"ScreencastFormat">> >>,
       << <<"Runtime", ".", "consoleAPICalled", ".", "type">>, <<"APIType">> >>,
       << <<"Runtime", ".", "ObjectPreview", ".", "subtype">>, <<"Subtype">> >>,
       << <<"Runtime", ".", "ObjectPreview", ".", "type">>, <<"Type">> >>,
       << <<"Runtime", ".", "PropertyPreview", ".", "subtype">>, <<"Subtype">> >>,
       << <<"Runtime", ".", "PropertyPreview", ".", "type">>, <<"Type">> >>,
       << <<"Runtime", ".", "RemoteObject", ".", "subtype">>, <<"Subtype">> >>,
       << <<"Runtime", ".", "RemoteObject", ".", "type">>, <<"Type">> >>,
       << <<"Tracing", ".", "start", ".", "transferMode">>, <<"TransferMode">> >>,
       << <<"Tracing", ".", "TraceConfig", ".", "recordMode">>, <<"RecordMode">> >>
    >>

\* the values of all, each at its first occurrence
RECURSIVE Dedup(_, _, _)
Dedup(acc, all, k) ==
    IF k > Len(all) THEN acc
    ELSE Dedup(IF \E j \in 1..Len(acc) : acc[j] = all[k] THEN acc ELSE Append(acc, all[k]),
               all, k + 1)

\* a merge that puts the literals of p after those of typ as they come
AddEnumAtAppend(d, j, p) ==
    [d EXCEPT !.Types[j].Enum = [nil |-> FALSE, s |-> @.s \o p.Enum.s]]

\* addEnumValues once typ is found or made: typ is type j of d
AddEnumAt(d, j, p) ==
    [d EXCEPT !.Types[j].Enum = [nil |-> FALSE, s |-> Dedup(<<>>, @.s \o p.Enum.s, 1)]]

\* addEnumValues
addEnumValues(d, n, p) ==
    IF IndexOf(d.Types, "Name", n) # 0
    THEN AddEnumAt(d, IndexOf(d.Types, "Name", n), p)
    ELSE AddEnumAt([d EXCEPT !.Types = Append(@, [Rebuilt(p) EXCEPT !.Name = n,
                                                                   !.Type = TypeString])],
                   Len(d.Types) + 1, p)

\* fixupEnumParameter once ref is known; the result is the domain and the type
EnumParameter(p, d, ref) ==
    [d |-> addEnumValues(d, ref, p), t |-> [Rebuilt(p) EXCEPT !.Ref = ref]]

\* the ref of fixupEnumParameter for the fully qualified name fqname
EnumRef(fqname, typ, p) ==
    IF IndexOf(enumRefMap, 1, fqname) # 0
    THEN enumRefMap[IndexOf(enumRefMap, 1, fqname)][2]
    ELSE ForceCamelIdentifier(typ \o <<".">> \o p.Name)

\* fixupEnumParameter
fixupEnumParameter(typ, p, d) ==
    EnumParameter(p, d,
        EnumRef(TrimSuffix(d.Domain \o <<".">> \o typ \o <<".">> \o p.Name, <<".">>), typ, p))

\* the reference split in two around its first dot, the domain prefix cut off
StripRef(n, d) ==
    IF Len(n) = 1 THEN <<TrimPrefix(n[1], d.Domain)>>
    ELSE <<n[1], TrimPrefix(n[2], n[1])>>

\* the rewritten reference, z being the joined parts
RewriteJoined(ref, z) == RemoveAll(IF z = EmptyStr THEN ref ELSE z, "AX")

\* the case of convertObjectProperties for a resolved reference
RewriteRef(ref, d) == RewriteJoined(ref, Join(StripRef(SplitN2(ref, "."), d), "."))

\* the cases of convertObjectProperties that follow the enum case
ConvertPlain(p, d) ==
    IF p.Name = <<"modifiers">> THEN [Rebuilt(p) EXCEPT !.Ref = <<"Modifier">>]
    ELSE IF p.Name = <<"nodeType">> THEN [Rebuilt(p) EXCEPT !.Ref = <<"DOM", ".", "NodeType">>]
    ELSE IF p.Ref = <<"GestureSourceType">> THEN [Rebuilt(p) EXCEPT !.Ref = <<"GestureType">>]
    ELSE IF p.Ref = <<"CSS", "ComputedStyleProperty">>
         THEN [Rebuilt(p) EXCEPT !.Ref = <<"ComputedProperty">>]
    ELSE IF p.Ref # EmptyStr /\ ~p.NoExpose /\ ~p.NoResolve
         THEN [Rebuilt(p) EXCEPT !.Ref = RewriteRef(p.Ref, d)]
    ELSE p

\* the switch of convertObjectProperties on a p without Items; the result is
\* the domain and the type appended to r
ConvertLeaf(p, d, name) ==
    IF ~p.Enum.nil THEN fixupEnumParameter(name, p, d)
    ELSE [d |-> d, t |-> ConvertPlain(p, d)]

\* the array case of convertObjectProperties, c being the converted p.Items
ArrayOf(p, c) ==
    [d |-> c.d, t |-> [Rebuilt(p) EXCEPT !.Type = TypeArray, !.Items = <<c.t>>]]

\* the switch of convertObjectProperties on p.  The Items of a p have no
\* Items themselves (assignType builds one level), so that the call of
\* convertObjectProperties on []*Type{p.Items} is one ConvertLeaf
ConvertOne(p, d, name) ==
    IF p.Items # <<>>
    THEN ArrayOf(p, ConvertLeaf(p.Items[1], d, name \o <<".">> \o p.Name))
    ELSE ConvertLeaf(p, d, name)

\* r = append(r, ...), with what the case did to the domain
Push(acc, c) == [d |-> c.d, r |-> Append(acc.r, c.t)]

\* the loop of convertObjectProperties from params[k] on
RECURSIVE ConvertFrom(_, _, _, _)
ConvertFrom(params, k, acc, name) ==
    IF k > Len(params) THEN acc
    ELSE ConvertFrom(params, k + 1, Push(acc, ConvertOne(params[k], acc.d, name)), name)

\* convertObjectProperties; the result is the domain and the slice r
convertObjectProperties(params, d, name) ==
    ConvertFrom(params, 1, [d |-> d, r |-> <<>>], name)

\* t.<field> = convertObjectProperties(...), t being element j of d.<list>
SetField(list, j, field, c) ==
    [c.d EXCEPT ![list][j][field] = [nil |-> FALSE, s |-> c.r]]

\* the loop of FixDomains that converts the properties of the types: it
\* ranges over the n types that d has when the loop starts
RECURSIVE ConvertTypes(_, _, _)
ConvertTypes(d, j, n) ==
    IF j > n THEN d
    ELSE IF d.Types[j].Properties.nil THEN ConvertTypes(d, j + 1, n)
    ELSE ConvertTypes(SetField("Types", j, "Properties",
                          convertObjectProperties(d.Types[j].Properties.s, d, d.Types[j].Name)),
                      j + 1, n)

\* the conversion of t.Returns in convertObjects
ConvertReturns(list, j, d) ==
    IF d[list][j].Returns.nil THEN d
    ELSE SetField(list, j, "Returns",
             convertObjectProperties(d[list][j].Returns.s, d, d[list][j].Name))

\* the loop of convertObjects from element j of d.<list> on
RECURSIVE ConvertObjectsFrom(_, _, _)
ConvertObjectsFrom(d, list, j) ==
    IF j > Len(d[list]) THEN d
    ELSE ConvertObjectsFrom(
            ConvertReturns(list, j,
                SetField(list, j, "Parameters",
                    convertObjectProperties(d[list][j].Parameters.s, d, d[list][j].Name))),
            list, j + 1)

\* convertObjects
convertObjects(d, list) == ConvertObjectsFrom(d, list, 1)

\* a loop that strips the prefix even when nothing is left of the name
FixStutteringUnguarded(d) ==
    [d EXCEPT !.Types = [k \in 1..Len(@) |-> LET t == @[k] IN
        IF ~t.NoExpose /\ ~t.NoResolve
        THEN [t EXCEPT !.Name = TrimPrefix(t.Name, d.Domain)]
        ELSE t]]

\* the loop of FixDomains that fixes type stuttering
FixStuttering(d) ==
    [d EXCEPT !.Types = [k \in 1..Len(@) |-> LET t == @[k] IN
        IF ~t.NoExpose /\ ~t.NoResolve /\ TrimPrefix(t.Name, d.Domain) # EmptyStr
        THEN [t EXCEPT !.Name = TrimPrefix(t.Name, d.Domain)]
        ELSE t]]

\* the properties, the events and the commands of d converted
ConvertDomain(d) ==
    convertObjects(convertObjects(ConvertTypes(d, 1, Len(d.Types)), "Events"), "Commands")

\* the body of the loop of FixDomains, on domain d
FixDomain(d) == FixStuttering(ConvertDomain(DomainFixes(d)))

----------------------------------------------------------------------------
(* The file cacher (src/gen/genutil/genutil.go, fileCacher.Get; the Get of
   package util is the same code with Cache written out) *)

\* the file at the cache path: whether os.Stat finds it, its modification
\* time and its content
NoFile == [exists |-> FALSE, mtime |-> 0, data |-> ""]

\* base64.StdEncoding.DecodeString on the contents of the model: cGRs is the
\* encoding of pdl, and pdl, three characters long, is no base64 text
DecodeString(buf) ==
    IF buf = "cGRs" THEN [ok |-> TRUE, buf |-> "pdl"]
    ELSE IF buf = "" THEN [ok |-> TRUE, buf |-> ""]
    ELSE [ok |-> FALSE, buf |-> ""]

\* a test that takes a ttl of 0 like any other ttl
CachedWhateverTtl(f, ttl, t) == f.exists /\ ~(t > f.mtime + ttl)

\* err == nil && fc.ttl != 0 && !time.Now().After(fi.ModTime().Add(fc.ttl))
Cached(f, ttl, t) == f.exists /\ ttl # 0 /\ ~(t > f.mtime + ttl)

\* what Get returns, whether it sent the request, and the file afterwards
Returned(kind, data, contacted, f) ==
    [kind |-> kind, data |-> data, contacted |-> contacted, file |-> f]

\* Get from "retrieve" on, with buf the body once decoded if asked for;
\* fault names the file operation that fails, if one does
Write(f, t, buf, fault) ==
    IF ~buf.ok THEN Returned("error", "", TRUE, f)
    ELSE IF fault = "open" THEN Returned("error", "", TRUE, f)
    ELSE IF fault = "write" THEN Returned("error", "", TRUE, [exists |-> TRUE, mtime |-> t, data |-> ""])
    ELSE Returned("ok", buf.buf, TRUE, [exists |-> TRUE, mtime |-> t, data |-> buf.buf])

\* fileCacher.Get at time t on the file f, with the answer of the remote
GetResult(f, t, ttl, b64Decode, remote, fault) ==
    IF fault = "mkdir" THEN Returned("error", "", FALSE, f)
    ELSE IF Cached(f, ttl, t)
         THEN (IF fault = "read" THEN Returned("error", "", FALSE, f)
               ELSE Returned("ok", f.data, FALSE, f))
    ELSE IF ~remote.ok THEN Returned("error", "", TRUE, f)
    ELSE Write(f, t, IF b64Decode THEN DecodeString(remote.body)
                     ELSE [ok |-> TRUE, buf |-> remote.body], fault)

----------------------------------------------------------------------------
(* run and cleanupTypes (src/gen/genutil/genutil.go) *)

\* a test that skips the deprecated types only
SkippedIfDeprecated(t) == t.Deprecated

\* the two `continue` of cleanupTypes: t is deprecated, or redirected
Skipped(t) == t.Deprecated \/ ~t.Redirect.nil

\* `var ret []*pdl.Type` and its appends: nil as long as nothing is appended
Returned0(r) == [nil |-> r = <<>>, s |-> r]

\* cleanupTypes, and a kept t with its Properties, Parameters and Returns
\* cleaned when they are not nil
RECURSIVE cleanupTypes(_)
Cleaned(t) ==
    [t EXCEPT !.Properties = IF @.nil THEN @ ELSE Returned0(cleanupTypes(@.s)),
              !.Parameters = IF @.nil THEN @ ELSE Returned0(cleanupTypes(@.s)),
              !.Returns = IF @.nil THEN @ ELSE Returned0(cleanupTypes(@.s))]
cleanupTypes(typs) ==
    IF typs = <<>> THEN <<>>
    ELSE IF Skipped(Head(typs)) THEN cleanupTypes(Tail(typs))
    ELSE <<Cleaned(Head(typs))>> \o cleanupTypes(Tail(typs))

\* "cleanup types, events, commands" of run on domain d
CleanupDomain(d) ==
    [d EXCEPT !.Types = cleanupTypes(@), !.Events = cleanupTypes(@),
              !.Commands = cleanupTypes(@)]

----------------------------------------------------------------------------
(* The parser and the writer as a state machine *)

\* the most lines of an input text
MaxLines == 4

\* a line: n spaces, then the words ws separated by single spaces
Line(n, ws) == Spaces(n) \o Join([k \in 1..Len(ws) |-> <<ws[k]>>], SP)

\* the lines an input text is made of
InputLines ==
    { Line(0, <<"domain", "A">>),
      Line(0, <<"domain", "B">>),
      Line(2, <<"depends", "on", "B">>),
      Line(2, <<"type", "T", "extends", "string">>),
      Line(2, <<"type", "X", "extends", "T">>),
      Line(2, <<"type", "B", "extends", "binary">>),
      Line(2, <<"type", "A", "extends", "array", "of", "integer">>),
      Line(2, <<"command", "c">>),
      Line(2, <<"event", "e">>),
      Line(4, <<"parameters">>),
      Line(4, <<"properties">>),
      Line(4, <<"enum">>),
      Line(4, <<"redirect", "B">>),
      Line(6, <<"integer", "x">>),
      Line(6, <<"binary", "b">>),
      Line(6, <<"T", "r">>),
      Line(6, <<"optional", "array", "of", "enum", "y">>),
      Line(6, <<"array", "of", "array", "z">>),
      Line(6, <<"red">>),
      Line(0, <<"version">>),
      Line(2, <<"major", "1">>),
      Line(2, <<"minor", "2">>),
      Line(0, <<"#", "text">>),
      Line(0, <<>>),
      Line(0, <<"bogus">>) }

\* the most sources handed to Combine, and the greatest version number
MaxSources == 2
MaxVersion == 2

SourceVersions ==
    {NoVersion} \cup
    {[nil |-> FALSE, Major |-> a, Minor |-> b] : a \in 0..MaxVersion, b \in 0..MaxVersion}

\* a domain as Parse builds it from a header line
PlainDomain(name) ==
    [ Domain |-> name, Experimental |-> FALSE, Deprecated |-> FALSE,
      Description |-> EmptyStr, Dependencies |-> <<>>,
      Types |-> <<>>, Commands |-> <<>>, Events |-> <<>> ]

\* the models handed to Combine
Sources ==
    { [Copyright |-> c.c, Version |-> v, Domains |-> c.d] :
        v \in SourceVersions,
        c \in { [c |-> EmptyStr, d |-> <<>>],
                [c |-> <<"text">>, d |-> <<PlainDomain(<<"A">>)>>],
                [c |-> EmptyStr, d |-> <<PlainDomain(<<"B">>), PlainDomain(<<"A">>)>>] } }

\* a domain with the types of the given names
DomainOf(name, typeNames) ==
    [PlainDomain(name) EXCEPT
        !.Types = [k \in 1..Len(typeNames) |->
                      [ZeroType EXCEPT !.Name = typeNames[k], !.Type = TypeString]]]

DomDOM == DomainOf(<<"DOM">>, << <<"Node", "Id">>, <<"Node">> >>)
DomPage == DomainOf(<<"Page">>, << <<"Frame", "Id">> >>)
\* the domain of the shared types, as generateSharedTypes builds it
DomCdp == DomainOf(<<"cdp">>, << <<"Node", "Id">> >>)

\* the arguments of the calls of Resolve: the references, the current
\* domains, the domain lists (the last two hold two domains named DOM: the
\* first without types, or with the types of the second in another order)
\* and the predicates
ResolveRefs ==
    { <<"Node", "Id">>, <<"DOM", ".", "Node", "Id">>, <<"Page", ".", "Frame", "Id">>,
      <<"Frame", "Id">>, <<"Node">>, <<"DOM", ".", "Nothing">>,
      <<"NoSuchDomain", ".", "Nothing">> }
ResolveLists ==
    { <<DomDOM, DomPage>>, <<DomDOM, DomPage, DomCdp>>, <<DomPage>>,
      <<PlainDomain(<<"DOM">>), DomDOM>>,
      <<DomainOf(<<"DOM">>, << <<"Node">>, <<"Node", "Id">> >>), DomDOM>> }
ResolveInputs ==
    { [ref |-> r, d |-> d, domains |-> l, sharedFunc |-> f] :
        r \in ResolveRefs, d \in {DomDOM, DomPage, DomCdp}, l \in ResolveLists,
        f \in SUBSET { << <<"DOM">>, <<"Node", "Id">> >>, << <<"Page">>, <<"Frame", "Id">> >> } }

\* a line: n spaces, then the tokens separated by single spaces
LineOf(n, toks) == Spaces(n) \o Join(toks, SP)

\* the declarations of type Holder of the first domain, by shape: a
\* reference to type n1, an array of it, or an object with one property
HolderLines(shape, n1) ==
    CASE shape = "ref" -> << LineOf(2, << <<"type">>, <<"Holder">>, <<"extends">>, n1 >>) >>
      [] shape = "array" ->
            << LineOf(2, << <<"type">>, <<"Holder">>, <<"extends">>, <<"array">>, <<"of">>, n1 >>) >>
      [] OTHER ->
            << Line(2, <<"type", "Holder", "extends", "object">>), Line(4, <<"properties">>) >>
            \o CASE shape = "p-ref" -> << LineOf(6, <<n1, <<"r">> >>) >>
                 [] shape = "p-array" -> << LineOf(6, << <<"array">>, <<"of">>, n1, <<"rs">> >>) >>
                 [] shape = "p-enum" ->
                       << Line(6, <<"enum", "kind">>), Line(8, <<"a">>), Line(8, <<"b">>) >>
                 [] shape = "p-array-enum" ->
                       << Line(6, <<"array", "of", "enum", "kinds">>),
                          Line(8, <<"a">>), Line(8, <<"b">>) >>
                 [] shape = "p-integer" -> << Line(6, <<"integer", "x">>) >>

HolderShapes == {"ref", "array", "p-ref", "p-array", "p-enum", "p-array-enum", "p-integer"}

\* the parameter of the command or event of domain Page, by shape
ParameterLines(shape, dn, n1) ==
    CASE shape = "ref" -> << LineOf(6, << dn \o <<".">> \o n1, <<"r">> >>) >>
      [] shape = "enum" -> << Line(6, <<"enum", "kind">>), Line(8, <<"a">>), Line(8, <<"c">>) >>
      [] shape = "modifiers" -> << Line(6, <<"integer", "modifiers">>) >>
      [] shape = "integer" -> << Line(6, <<"integer", "x">>) >>

ParameterShapes == {"ref", "enum", "modifiers", "integer"}

\* the names of the first type of the first domain
TypeNames(dn) ==
    CASE dn = <<"CSS">> ->
            { <<"CSS", "Bar">>, <<"CSS">>, <<"CSS", "ComputedStyleProperty">>, <<"Bar">> }
      [] dn = <<"Accessibility">> ->
            { <<"AX", "Node">>, <<"Accessibility", "AX", "Node">>, <<"Accessibility">>,
              <<"Node">> }
      [] dn = <<"Input">> -> { <<"GestureSourceType">>, <<"Input", "Bar">> }
      [] dn = <<"DOM">> -> { <<"Node">>, <<"DOM", "Bar">> }

\* a definition text of two domains: dn with type n1 and type Holder, and
\* Page with a command or an event that has one parameter
FixText(dn, n1, holder, kind, param) ==
    Join(<< LineOf(0, << <<"domain">>, dn >>),
            LineOf(2, << <<"type">>, n1, <<"extends">>, <<"string">> >>) >>
         \o HolderLines(holder, n1)
         \o << Line(0, <<"domain", "Page">>),
               IF kind = "command" THEN Line(2, <<"command", "c">>) ELSE Line(2, <<"event", "e">>),
               Line(4, <<"parameters">>) >>
         \o ParameterLines(param, dn, n1),
         NL)

\* a definition text where the type HolderKind, an integer, bears the name
\* that the enum property kind of type Holder is promoted to
CollisionText ==
    Join(<< Line(0, <<"domain", "CSS">>),
            LineOf(2, << <<"type">>, <<"Holder", "Kind">>, <<"extends">>, <<"integer">> >>) >>
         \o HolderLines("p-enum", <<"Holder", "Kind">>)
         \o << Line(0, <<"domain", "Page">>), Line(2, <<"command", "c">>),
               Line(4, <<"parameters">>), Line(6, <<"integer", "x">>) >>,
         NL)

\* a definition text where the string enum HolderKind, with the literals b
\* and c, bears the name that the enum property kind of type Holder, with the
\* literals a and b, is promoted to; Holder has the property n times
PromotionText(n) ==
    Join(<< Line(0, <<"domain", "CSS">>),
            LineOf(2, << <<"type">>, <<"Holder", "Kind">>, <<"extends">>, <<"string">> >>),
            Line(4, <<"enum">>), Line(6, <<"b">>), Line(6, <<"c">>),
            Line(2, <<"type", "Holder", "extends", "object">>), Line(4, <<"properties">>) >>
         \o Concat([k \in 1..n |->
                << Line(6, <<"enum", "kind">>), Line(8, <<"a">>), Line(8, <<"b">>) >>])
         \o << Line(0, <<"domain", "Page">>), Line(2, <<"command", "c">>),
               Line(4, <<"parameters">>), Line(6, <<"integer", "x">>) >>,
         NL)

\* the domain lists handed to FixDomains: what Parse returns for the texts
FixInputs ==
    { Parse(FixText(x.dn, x.n1, h, k, q)).model.pdl.Domains :
        x \in UNION { { [dn |-> dn, n1 |-> n] : n \in TypeNames(dn) } :
                        dn \in { <<"CSS">>, <<"Accessibility">>, <<"Input">>, <<"DOM">> } },
        h \in HolderShapes, k \in {"command", "event"}, q \in ParameterShapes }
    \cup { Parse(CollisionText).model.pdl.Domains }
    \cup { Parse(PromotionText(n)).model.pdl.Domains : n \in 1..2 }

\* the times of the clock, and the greatest ttl
MaxTime == 3
MaxTtl == 2

\* the ttl of a file cacher, the answers of the remote, the file operation
\* that fails
Ttls == (0 - 1)..MaxTtl
Responses ==
    { [ok |-> FALSE, body |-> ""], [ok |-> TRUE, body |-> "pdl"], [ok |-> TRUE, body |-> "cGRs"] }
Faults == {"none", "mkdir", "read", "open", "write"}

NoCall == [ttl |-> 0, b64Decode |-> FALSE, remote |-> [ok |-> FALSE, body |-> ""],
           fault |-> "none", before |-> NoFile]
NotCalled == [called |-> FALSE, call |-> NoCall, r |-> Returned("none", "", FALSE, NoFile)]

NotReturned == [kind |-> "none", model |-> NoModel, err |-> NoError]
NotWritten == [set |-> FALSE, text |-> EmptyStr]
NotResolved ==
    [set |-> FALSE,
     r |-> ResolveScan(EmptyStr, DomCdp, <<>>, {}, EmptyStr, EmptyStr, 0),
     g |-> ResolveScan(EmptyStr, DomCdp, <<>>, {}, EmptyStr, EmptyStr, 0)]

ParseIdle ==
    /\ lines = <<>>
    /\ ps = ParseStart
    /\ ret = NotReturned
    /\ out = NotWritten
    /\ second = NotReturned
    /\ out2 = NotWritten

CombineIdle ==
    /\ pdls = <<>>
    /\ combined = NewPDL

ResolveIdle ==
    /\ rin = [ref |-> EmptyStr, d |-> DomCdp, domains |-> <<>>, sharedFunc |-> {}]
    /\ rout = NotResolved

FixIdle ==
    /\ forig = <<>>
    /\ fdomains = <<>>
    /\ fi = 1

CacheIdle ==
    /\ file = NoFile
    /\ now = 0
    /\ got = NotCalled

RunIdle ==
    /\ protoDefs = <<>>
    /\ processed = <<>>
    /\ ri = 1

Init == ParseIdle /\ CombineIdle /\ ResolveIdle /\ FixIdle /\ CacheIdle /\ RunIdle

\* Parse consumes the next line of buf, and returns if it cannot go on
ParseLine ==
    /\ ret.kind = "none"
    /\ Len(lines) < MaxLines
    /\ \E line \in InputLines :
        /\ lines' = Append(lines, line)
        /\ ps' = ParseStep(ps, line)
        /\ ret' = IF ps'.status = "run" THEN ret ELSE ParseReturn(ps')
    /\ UNCHANGED <<out, second, out2, combineVars, resolveVars, fixVars, cacheVars, runVars>>

\* Parse has consumed the last line of buf and returns the model
ParseEnd ==
    /\ ret.kind = "none"
    /\ Len(lines) >= 1
    /\ ret' = ParseReturn(ps)
    /\ UNCHANGED <<lines, ps, out, second, out2, combineVars, resolveVars, fixVars, cacheVars, runVars>>

\* Bytes on the model Parse returned
WriteBytes ==
    /\ ret.kind = "ok"
    /\ ~out.set
    /\ out' = [set |-> TRUE, text |-> Bytes(ret.model.pdl)]
    /\ UNCHANGED <<lines, ps, ret, second, out2, combineVars, resolveVars, fixVars, cacheVars, runVars>>

\* Parse on the text Bytes wrote
Reparse ==
    /\ out.set
    /\ second.kind = "none"
    /\ second' = Parse(out.text)
    /\ UNCHANGED <<lines, ps, ret, out, out2, combineVars, resolveVars, fixVars, cacheVars, runVars>>

\* Bytes on the model of the second Parse
Rewrite ==
    /\ second.kind = "ok"
    /\ ~out2.set
    /\ out2' = [set |-> TRUE, text |-> Bytes(second.model.pdl)]
    /\ UNCHANGED <<lines, ps, ret, out, second, combineVars, resolveVars, fixVars, cacheVars, runVars>>

Next == ParseLine \/ ParseEnd \/ WriteBytes \/ Reparse \/ Rewrite

Spec == Init /\ [][Next]_vars

\* Combine takes its next source
CombineNext ==
    /\ Len(pdls) < MaxSources
    /\ \E p \in Sources :
        /\ pdls' = Append(pdls, p)
        /\ combined' = CombineStep(combined, p)
    /\ UNCHANGED <<parseVars, resolveVars, fixVars, cacheVars, runVars>>

SpecCombine == Init /\ [][CombineNext]_vars

\* a call of Resolve
InitResolve ==
    /\ ParseIdle /\ CombineIdle /\ FixIdle /\ CacheIdle /\ RunIdle
    /\ rin \in ResolveInputs
    /\ rout = NotResolved

ResolveCall ==
    /\ ~rout.set
    /\ rout' = [set |-> TRUE,
                 r |-> Resolve(rin.ref, rin.d, rin.domains, rin.sharedFunc),
                 g |-> GotplResolve(rin.ref, rin.d, rin.domains, rin.sharedFunc)]
    /\ UNCHANGED <<parseVars, combineVars, rin, fixVars, cacheVars, runVars>>

SpecResolve == InitResolve /\ [][ResolveCall]_vars

\* a call of FixDomains
InitFix ==
    /\ ParseIdle /\ CombineIdle /\ ResolveIdle /\ CacheIdle /\ RunIdle
    /\ forig \in FixInputs
    /\ fdomains = forig
    /\ fi = 1

\* one iteration of the loop of FixDomains over the domains
FixNext ==
    /\ fi <= Len(fdomains)
    /\ fdomains' = [fdomains EXCEPT ![fi] = FixDomain(@)]
    /\ fi' = fi + 1
    /\ UNCHANGED <<parseVars, combineVars, resolveVars, forig, cacheVars, runVars>>

SpecFix == InitFix /\ [][FixNext]_vars

\* Parse on the texts of enumerations: at most MaxEnumLines lines
MaxEnumLines == 5

EnumLines ==
    { Line(0, <<"domain", "A">>),
      Line(2, <<"type", "T", "extends", "string">>),
      Line(2, <<"type", "X", "extends", "T">>),
      Line(4, <<"enum">>),
      Line(4, <<"properties">>),
      Line(6, <<"enum", "y">>),
      Line(6, <<"red">>) }

\* Parse consumes the next line of a text of enumerations
ParseEnumLine ==
    /\ ret.kind = "none"
    /\ Len(lines) < MaxEnumLines
    /\ \E line \in EnumLines :
        /\ lines' = Append(lines, line)
        /\ ps' = ParseStep(ps, line)
        /\ ret' = IF ps'.status = "run" THEN ret ELSE ParseReturn(ps')
    /\ UNCHANGED <<out, second, out2, combineVars, resolveVars, fixVars, cacheVars, runVars>>

EnumNext == ParseEnumLine \/ ParseEnd

SpecEnum == Init /\ [][EnumNext]_vars

\* Parse on the texts of comments and declarations: at most MaxDescLines lines
MaxDescLines == 5

DescLines ==
    { Line(0, <<"#", "text">>),
      <<"#", SP, SP, "more", SP>>,
      <<"#">>,
      Line(0, <<>>),
      Line(0, <<"domain", "A">>),
      Line(2, <<"type", "T", "extends", "string">>),
      Line(2, <<"command", "c">>),
      Line(4, <<"properties">>),
      Line(6, <<"integer", "x">>) }

\* Parse consumes the next line of a text of comments and declarations
ParseDescLine ==
    /\ ret.kind = "none"
    /\ Len(lines) < MaxDescLines
    /\ \E line \in DescLines :
        /\ lines' = Append(lines, line)
        /\ ps' = ParseStep(ps, line)
        /\ ret' = IF ps'.status = "run" THEN ret ELSE ParseReturn(ps')
    /\ UNCHANGED <<out, second, out2, combineVars, resolveVars, fixVars, cacheVars, runVars>>

DescNext == ParseDescLine \/ ParseEnd

SpecDesc == Init /\ [][DescNext]_vars

\* the words of a declaration, after `deprecated` when dep holds
Dep(dep, ws) == IF dep THEN <<(<<"deprecated">>)>> \o ws ELSE ws

\* the line `    redirect B` when red holds
Red(red) == IF red THEN << Line(4, <<"redirect", "B">>) >> ELSE <<>>

\* a definition text of the domains A and B.  A has the type T, the type
\* Holder with the properties r, a reference to T, and x, and the command c
\* with a parameter that refers to type U of B.  f tells which of them are
\* deprecated and which redirected
RunText(f) ==
    Join(<< LineOf(0, Dep(f.depA, << <<"domain">>, <<"A">> >>)),
            LineOf(2, Dep(f.depT, << <<"type">>, <<"T">>, <<"extends">>, <<"string">> >>)) >>
         \o Red(f.redT)
         \o << Line(2, <<"type", "Holder", "extends", "object">>),
               Line(4, <<"properties">>),
               LineOf(6, Dep(f.depM, << <<"T">>, <<"r">> >>)),
               Line(6, <<"integer", "x">>),
               LineOf(2, Dep(f.depC, << <<"command">>, <<"c">> >>)) >>
         \o Red(f.redC)
         \o << Line(4, <<"parameters">>),
               LineOf(6, << <<"B", ".", "U">>, <<"u">> >>),
               LineOf(0, Dep(f.depB, << <<"domain">>, <<"B">> >>)),
               LineOf(2, Dep(f.depU, << <<"type">>, <<"U">>, <<"extends">>, <<"string">> >>)) >>,
         NL)

\* the domain lists that run loads: what Parse returns for the texts; they
\* are in ascending order of name, as run sorts them before its loop
RunInputs ==
    { Parse(RunText(f)).model.pdl.Domains :
        f \in [ {"depA", "depT", "redT", "depM", "depC", "redC", "depB", "depU"} -> BOOLEAN ] }

InitRun ==
    /\ ParseIdle /\ CombineIdle /\ ResolveIdle /\ FixIdle /\ CacheIdle
    /\ protoDefs \in RunInputs
    /\ processed = <<>>
    /\ ri = 1

\* one iteration of the loop of run over protoDefs.Domains
RunNext ==
    /\ ri <= Len(protoDefs)
    /\ processed' = IF protoDefs[ri].Deprecated THEN processed
                    ELSE Append(processed, CleanupDomain(protoDefs[ri]))
    /\ ri' = ri + 1
    /\ UNCHANGED <<parseVars, combineVars, resolveVars, fixVars, cacheVars, protoDefs>>

\* fixup.FixDomains(processed)
RunFix ==
    /\ ri = Len(protoDefs) + 1
    /\ processed' = [k \in 1..Len(processed) |-> FixDomain(processed[k])]
    /\ ri' = ri + 1
    /\ UNCHANGED <<parseVars, combineVars, resolveVars, fixVars, cacheVars, protoDefs>>

RunSteps == RunNext \/ RunFix

SpecRun == InitRun /\ [][RunSteps]_vars

\* a call of Get, at the time of the last call or later
Get ==
    /\ \E t \in now..MaxTime, ttl \in Ttls, b64Decode \in BOOLEAN,
          remote \in Responses, fault \in Faults :
        /\ now' = t
        /\ got' = [ called |-> TRUE,
                    call |-> [ttl |-> ttl, b64Decode |-> b64Decode, remote |-> remote,
                              fault |-> fault, before |-> file],
                    r |-> GetResult(file, t, ttl, b64Decode, remote, fault) ]
        /\ file' = got'.r.file
    /\ UNCHANGED <<parseVars, combineVars, resolveVars, fixVars, runVars>>

SpecCache == Init /\ [][Get]_vars

----------------------------------------------------------------------------
(* The properties of Parse and Bytes *)

\* whether Parse hands the line to its patterns: neither a comment nor blank
IsDeclLine(line) == TrimSpace(line) # EmptyStr /\ ~HasPrefix(TrimSpace(line), <<"#">>)

\* the line Parse consumed last
LastLine == lines[Len(lines)]

\* C1: for every text T that Parse accepts, Parse accepts Bytes(Parse(T)), and
\* Bytes(Parse(Bytes(Parse(T)))) equals Bytes(Parse(T)).
C1_RoundTripFixedPoint ==
    /\ (second.kind # "none" => second.kind = "ok")
    /\ (out2.set => out2.text = out.text)

\* C2: Parse returns a model or an error for every sequence of lines: a line
\* that needs a domain, a type/command/event, a member list, an enum-literal
\* list or a version record that is not open yet raises an error, never a
\* nil-pointer fault.
C2_NoNilPointerFault == ps.status # "panic"

\* C4: a line that matches no pattern ends Parse at that line, with an error
\* that carries the 0-based index of the line and its raw text, and no model.
C4_UnknownLineStops ==
    /\ \A k \in 1..Len(lines) :
          IsDeclLine(lines[k]) /\ Classify(lines[k]) = "unknown"
              => /\ k = Len(lines)
                 /\ ret.kind = "error"
                 /\ ret.model.nil
                 /\ ret.err = [nil |-> FALSE, idx |-> k - 1, line |-> lines[k]]
    /\ ret.kind = "error"
          => IsDeclLine(LastLine) /\ Classify(LastLine) = "unknown"

C4_Witness ==
    /\ ret.kind = "error"
    /\ Len(lines) = 3
    /\ ps.pdl.Domains # <<>>

\* the base-type tokens that name a primitive kind
PrimitiveNames ==
    { <<"any">>, <<"array">>, <<"binary">>, <<"boolean">>, <<"integer">>,
      <<"number">>, <<"object">>, <<"string">> }

\* the shape that the base-type token tok gives to the parsed type t
BaseTokenShape(tok, t) ==
    IF tok \in PrimitiveNames THEN t.Type = tok /\ t.Ref = EmptyStr
    ELSE IF tok # <<"enum">> THEN t.Ref = tok /\ t.Type = EmptyStr
    ELSE TRUE

\* the member that the last line appended, and the type it declared
LastMember ==
    LET sub == ps.subitems
        l == ps.pdl.Domains[sub.d][sub.list][sub.i][sub.field].s
    IN  l[Len(l)]
LastItem == ps.pdl.Domains[ps.item.d][ps.item.list][ps.item.i]

\* C10: for a declaration without `array of`, a base-type token among any,
\* array, binary, boolean, integer, number, object, string gives that
\* primitive kind and an empty reference; every other token except enum is
\* the reference, with the kind unset.
C10_BaseTokenDecidesShape ==
    (Len(lines) > 0 /\ ps.status = "run" /\ IsDeclLine(LastLine)) =>
        /\ (Classify(LastLine) = "member" /\ ~MatchMember(LastLine).arr
               => BaseTokenShape(MatchMember(LastLine).typ, LastMember))
        /\ (Classify(LastLine) = "type" /\ ~MatchType(LastLine).arr
               => BaseTokenShape(MatchType(LastLine).typ, LastItem))

\* the shape of a type or member t declared `array of tok` under the name
\* name: of array kind, with one Items type that has no name and no Items of
\* its own, and the kind or reference that tok gives without `array of`
ArrayShape(tok, name, t) ==
    /\ t.Type = TypeArray
    /\ t.Name = name
    /\ Len(t.Items) = 1
    /\ t.Items[1].Name = EmptyStr
    /\ t.Items[1].Items = <<>>
    /\ t.Items[1].Type = assignType(ZeroType, tok, FALSE).Type
    /\ t.Items[1].Ref = assignType(ZeroType, tok, FALSE).Ref

\* C11 as stated: a declaration `array of X` gives the array shape, and its
\* Items type is never of array kind.
C11_ArrayOfAsStated ==
    (Len(lines) > 0 /\ ps.status = "run" /\ IsDeclLine(LastLine)) =>
        /\ (Classify(LastLine) = "member" /\ MatchMember(LastLine).arr
               => /\ ArrayShape(MatchMember(LastLine).typ, MatchMember(LastLine).name, LastMember)
                  /\ LastMember.Items[1].Type # TypeArray)
        /\ (Classify(LastLine) = "type" /\ MatchType(LastLine).arr
               => /\ ArrayShape(MatchType(LastLine).typ, MatchType(LastLine).name, LastItem)
                  /\ LastItem.Items[1].Type # TypeArray)

\* C11: a member or type declared `array of X` parses to a type of array
\* kind with the declared name and exactly one Items type, which has an empty
\* name, no Items of its own, and the kind or reference that the token X
\* gives to a non-array declaration (the array kind when X is `array`).
C11_ArrayOf ==
    (Len(lines) > 0 /\ ps.status = "run" /\ IsDeclLine(LastLine)) =>
        /\ (Classify(LastLine) = "member" /\ MatchMember(LastLine).arr
               => ArrayShape(MatchMember(LastLine).typ, MatchMember(LastLine).name, LastMember))
        /\ (Classify(LastLine) = "type" /\ MatchType(LastLine).arr
               => ArrayShape(MatchType(LastLine).typ, MatchType(LastLine).name, LastItem))

\* the member line `array of array z` has been parsed
C11_Witness ==
    /\ Len(lines) > 0
    /\ ps.status = "run"
    /\ LastLine = Line(6, <<"array", "of", "array", "z">>)
    /\ LastMember.Name = <<"z">>
    /\ LastMember.Items[1].Type = TypeArray

\* the lines before the last one, and the state of Parse after them
EarlierLines == SubSeq(lines, 1, Len(lines) - 1)
Earlier == ParseLoop(ParseStart, EarlierLines)

\* the lines that open an Enum list: the enum marker, a member of base type enum
OpensEnum(line) ==
    \/ Classify(line) = "enum"
    \/ Classify(line) = "member" /\ MatchMember(line).typ = <<"enum">>

\* C12: an enum-literal line adds to the Enum list of the marker or member it
\* follows and to no other; so a literal line that comes right after a
\* declaration or marker line that opens no Enum list adds to no Enum list at
\* all, and leaves the model as it was.
C12_LiteralsFollowTheirMarker ==
    ( /\ Len(lines) >= 2
      /\ ps.status = "run"
      /\ Classify(LastLine) = "enumLiteral"
      /\ Classify(lines[Len(lines) - 1]) \in {"domain", "type", "commandEvent", "member", "paramsRetsProps"}
      /\ ~OpensEnum(lines[Len(lines) - 1]) )
    => ps.pdl = Earlier.pdl

\* the list of its domain that a declaration line adds to, and the name it declares
ListOfLine(line) ==
    IF Classify(line) = "type" THEN "Types"
    ELSE IF Classify(line) = "commandEvent"
         THEN (IF MatchCommandEvent(line).kind = <<"command">> THEN "Commands" ELSE "Events")
    ELSE "none"
NameOfLine(line) ==
    IF Classify(line) = "type" THEN MatchType(line).name ELSE MatchCommandEvent(line).name

\* the names that the lines ls declare for the list `list`, domain by domain,
\* in the order of the lines; acc holds the domains of the lines already seen
RECURSIVE Declared(_, _, _)
Declared(ls, list, acc) ==
    IF ls = <<>> THEN acc
    ELSE IF ~IsDeclLine(Head(ls)) THEN Declared(Tail(ls), list, acc)
    ELSE IF Classify(Head(ls)) = "domain" THEN Declared(Tail(ls), list, Append(acc, <<>>))
    ELSE IF ListOfLine(Head(ls)) = list /\ acc # <<>>
         THEN Declared(Tail(ls), list, [acc EXCEPT ![Len(acc)] = Append(@, NameOfLine(Head(ls)))])
    ELSE Declared(Tail(ls), list, acc)

\* the names of the list `list` of every domain of the model
Listed(doms, list) ==
    [k \in 1..Len(doms) |-> [j \in 1..Len(doms[k][list]) |-> doms[k][list][j].Name]]

\* C13: the Types, Commands and Events lists of every domain hold the
\* declarations made under that domain's header, each once, in the order of
\* their lines.
C13_DeclarationsInOrder ==
    ps.status = "run" =>
        \A list \in {"Types", "Commands", "Events"} :
            Listed(ps.pdl.Domains, list) = Declared(lines, list, <<>>)

\* two types declared under one header, and a command after them
C13_Witness ==
    /\ ps.status = "run"
    /\ Len(ps.pdl.Domains) = 1
    /\ Len(ps.pdl.Domains[1].Types) = 2
    /\ ps.pdl.Domains[1].Types[1].Name # ps.pdl.Domains[1].Types[2].Name
    /\ Len(ps.pdl.Domains[1].Commands) = 1

\* the type lines of the written lines ol come in ascending order of name
\* inside each domain
TypesAscending(ol) ==
    \A i, j \in 1..Len(ol) :
        ( /\ i < j
          /\ Classify(ol[i]) = "type"
          /\ Classify(ol[j]) = "type"
          /\ \A k \in i..j : Classify(ol[k]) # "domain" )
        => ~StrLess(MatchType(ol[j]).name, MatchType(ol[i]).name)

\* C14: whatever the order of the lists of the model, Bytes writes the types
\* of a domain in ascending order of name.
C14_TypesWrittenAscending == out.set => TypesAscending(Split(out.text, NL))

\* C16: in a model that Parse returns no two domains have the same name.
C16_DomainNamesUnique ==
    ret.kind = "ok" =>
        \A i, j \in 1..Len(ret.model.pdl.Domains) :
            i # j => ret.model.pdl.Domains[i].Domain # ret.model.pdl.Domains[j].Domain

\* C17: no type that Parse returns has a plain primitive kind, any but object,
\* together with a Properties list that is not empty.
C17_PlainTypesHaveNoProperties ==
    ret.kind = "ok" =>
        \A d \in 1..Len(ret.model.pdl.Domains) :
            \A i \in 1..Len(ret.model.pdl.Domains[d].Types) :
                ret.model.pdl.Domains[d].Types[i].Type \in {TypeBoolean, TypeInteger, TypeNumber, TypeString}
                    => ret.model.pdl.Domains[d].Types[i].Properties.s = <<>>

\* the lines that open a domain or declare a type, a command or an event,
\* and the lines that add to what was opened or declared
Header(line) == IsDeclLine(line) /\ (Classify(line) = "domain" \/ ListOfLine(line) # "none")
AddsTo(line) ==
    /\ IsDeclLine(line)
    /\ Classify(line) \in {"member", "paramsRetsProps", "enum", "redirect", "enumLiteral"}

\* the number of the last header line; 0 when there is none
LastHeader ==
    CHOOSE m \in 0..Len(lines) :
        /\ m = 0 \/ Header(lines[m])
        /\ \A j \in (m + 1)..Len(lines) : ~Header(lines[j])

\* element j of list `list` of domain d is the declaration made last, and
\* no domain was opened after it
MostRecent(d, list, j) ==
    /\ LastHeader # 0
    /\ ListOfLine(lines[LastHeader]) = list
    /\ d = Len(ps.pdl.Domains)
    /\ j = Len(ps.pdl.Domains[d][list])

\* every declaration but the most recent one is as it is in the domains `before`
OthersUntouched(before) ==
    \A d \in 1..Len(ps.pdl.Domains) :
        \A list \in {"Types", "Commands", "Events"} :
            \A j \in 1..Len(ps.pdl.Domains[d][list]) :
                ~MostRecent(d, list, j) => ps.pdl.Domains[d][list][j] = before[d][list][j]

\* C20: a member, section, enum, redirect or enum-literal line changes only
\* the type, command or event declared last, in the domain opened last: every
\* other declaration is after the line as it was before it.
C20_OnlyMostRecentChanges ==
    (Len(lines) > 0 /\ ps.status = "run" /\ AddsTo(LastLine))
        => OthersUntouched(Earlier.pdl.Domains)

\* the patterns in the order the claim gives, and whether a line matches one
PatternOrder ==
    << "domain", "depends", "type", "commandEvent", "member", "paramsRetsProps",
       "enum", "version", "major", "minor", "redirect", "enumLiteral" >>
Matches(line, p) ==
    CASE p = "domain" -> MatchDomain(line).ok
      [] p = "depends" -> MatchDepends(line).ok
      [] p = "type" -> MatchType(line).ok
      [] p = "commandEvent" -> MatchCommandEvent(line).ok
      [] p = "member" -> MatchMember(line).ok
      [] p = "paramsRetsProps" -> MatchParamsRetsProps(line).ok
      [] p = "enum" -> MatchEnum(line).ok
      [] p = "version" -> MatchVersion(line).ok
      [] p = "major" -> MatchNumber(line, "major").ok
      [] p = "minor" -> MatchNumber(line, "minor").ok
      [] p = "redirect" -> MatchRedirect(line).ok
      [] p = "enumLiteral" -> MatchEnumLiteral(line).ok

\* the earliest pattern of the order that the line matches
FirstMatching(line) ==
    IF \E k \in 1..Len(PatternOrder) : Matches(line, PatternOrder[k])
    THEN PatternOrder[CHOOSE k \in 1..Len(PatternOrder) :
                        /\ Matches(line, PatternOrder[k])
                        /\ \A j \in 1..(k - 1) : ~Matches(line, PatternOrder[j])]
    ELSE "unknown"

\* the state of Parse after the transition of pattern p alone on the line,
\* from the state st before the line
After(st, line, p) == Advance(Handle(MarkCopyright(ClearDesc(st)), line, p))

IsComment(line) == HasPrefix(TrimSpace(line), <<"#">>)

\* C22: the comment block that Parse captures as the copyright is not the
\* description of a declaration: when the text begins with comment lines
\* and a domain header comes right after them, the block is the copyright
\* and the domain is not described by it.
C22_CopyrightNotADescription ==
    ( /\ Len(lines) >= 2
      /\ ps.status = "run"
      /\ \A j \in 1..(Len(lines) - 1) : IsComment(lines[j])
      /\ IsDeclLine(LastLine)
      /\ Classify(LastLine) = "domain" )
    => /\ ps.pdl.Copyright # EmptyStr
       /\ ps.pdl.Domains[1].Description # ps.pdl.Copyright

\* the number of the first line of the run of comment lines that ends right
\* before the last line; the number of the last line when there is no such run
RunStart ==
    CHOOSE m \in 1..Len(lines) :
        /\ \A j \in m..(Len(lines) - 1) : IsComment(lines[j])
        /\ m = 1 \/ ~IsComment(lines[m - 1])

\* the texts of the comment lines of that run, each without its # and trimmed
CommentTexts ==
    [k \in 1..(Len(lines) - RunStart) |-> TrimSpace(Tail(TrimSpace(lines[RunStart + k - 1])))]

\* the description of what the last line declared
DeclaredDescription ==
    IF Classify(LastLine) = "domain" THEN ps.pdl.Domains[Len(ps.pdl.Domains)].Description
    ELSE IF Classify(LastLine) = "member" THEN LastMember.Description
    ELSE LastItem.Description

\* C23: the description of a domain, type, command, event or member is the
\* text of the comment lines that come right before its declaration line,
\* joined by newlines and trimmed; it is empty when the line before the
\* declaration is no comment line, a blank line among them.
C23_DescriptionIsPrecedingComments ==
    ( /\ Len(lines) > 0
      /\ ps.status = "run"
      /\ IsDeclLine(LastLine)
      /\ Classify(LastLine) \in {"domain", "type", "commandEvent", "member"} )
    => DeclaredDescription = TrimSpace(Join(CommentTexts, NL))

\* a type described by the two comment lines right before it
C23_Witness ==
    /\ ps.status = "run"
    /\ Len(lines) = 4
    /\ lines[2] = Line(0, <<"#", "text">>)
    /\ lines[3] = <<"#", SP, SP, "more", SP>>
    /\ Classify(LastLine) = "type"
    /\ LastItem.Description = <<"text", NL, "more">>

\* the declarations of the returned model that carry a Redirect
Redirected ==
    { x \in UNION { UNION { { [d |-> d, list |-> list, j |-> j] :
                                j \in 1..Len(ret.model.pdl.Domains[d][list]) } :
                            list \in {"Types", "Commands", "Events"} } :
                    d \in 1..Len(ret.model.pdl.Domains) } :
        ~ret.model.pdl.Domains[x.d][x.list][x.j].Redirect.nil }

\* the model of the second Parse holds, in a domain and list of the same
\* name, a declaration of the name and with the Redirect of declaration t
HasSameRedirect(dn, list, t) ==
    \E d \in 1..Len(second.model.pdl.Domains) :
        /\ second.model.pdl.Domains[d].Domain = dn
        /\ \E j \in 1..Len(second.model.pdl.Domains[d][list]) :
            /\ second.model.pdl.Domains[d][list][j].Name = t.Name
            /\ second.model.pdl.Domains[d][list][j].Redirect = t.Redirect

\* C25: a model written by Bytes and parsed again has the same Redirect
\* domain and name on the same declaration.
C25_RedirectRoundTrip ==
    (ret.kind = "ok" /\ second.kind # "none") =>
        \A x \in Redirected :
            /\ second.kind = "ok"
            /\ HasSameRedirect(ret.model.pdl.Domains[x.d].Domain, x.list,
                               ret.model.pdl.Domains[x.d][x.list][x.j])

----------------------------------------------------------------------------
(* The properties of Combine *)

\* version a is at most version b: by major first, by minor second
VersionLeq(a, b) == a.Major < b.Major \/ (a.Major = b.Major /\ a.Minor <= b.Minor)

\* the sources that carry a version
Versioned == {k \in 1..Len(pdls) : ~pdls[k].Version.nil}

\* C3: Combine returns the greatest version of its sources, by major first
\* and by minor second, in whichever order the sources are given.
C3_GreatestVersion ==
    Versioned # {} =>
        /\ \E k \in Versioned : combined.Version = pdls[k].Version
        /\ \A k \in Versioned : VersionLeq(pdls[k].Version, combined.Version)

\* the Domains lists of the sources srcs, one after the other
RECURSIVE Concatenated(_)
Concatenated(srcs) ==
    IF srcs = <<>> THEN <<>> ELSE Head(srcs).Domains \o Concatenated(Tail(srcs))

\* C15: the Domains list Combine returns is the Domains lists of its sources
\* one after the other, in the order of the sources; a domain that two sources
\* hold is there twice.
C15_DomainsConcatenated == combined.Domains = Concatenated(pdls)

\* two sources that both hold domain A
C15_Witness ==
    /\ Len(pdls) = 2
    /\ pdls[1].Domains = <<PlainDomain(<<"B">>), PlainDomain(<<"A">>)>>
    /\ pdls[2].Domains = <<PlainDomain(<<"A">>)>>
    /\ combined.Domains = <<PlainDomain(<<"B">>), PlainDomain(<<"A">>), PlainDomain(<<"A">>)>>

----------------------------------------------------------------------------
(* The properties of Resolve *)

\* the position of the first dot of the reference; 0 when it has none
DotAt ==
    IF \E k \in 1..Len(rin.ref) : rin.ref[k] = "."
    THEN CHOOSE k \in 1..Len(rin.ref) :
            rin.ref[k] = "." /\ \A j \in 1..(k - 1) : rin.ref[j] # "."
    ELSE 0

\* the target domain and the bare name of the reference
TargetDomain == IF DotAt = 0 THEN rin.d.Domain ELSE SubSeq(rin.ref, 1, DotAt - 1)
BareName == IF DotAt = 0 THEN rin.ref ELSE SubSeq(rin.ref, DotAt + 1, Len(rin.ref))

\* whether the shared predicate holds for the target
IsShared == <<TargetDomain, BareName>> \in rin.sharedFunc

\* whether Resolve has returned a type
Resolved == rout.set /\ ~rout.r.panic

\* C8 as stated: the prefix is `cdp.` exactly when the pair is shared and the
\* current domain is not cdp; otherwise the lowercase target domain and a dot
\* exactly when the target domain differs from the current one; otherwise
\* none.
C8_DisplayNameAsStated ==
    Resolved =>
        rout.r.name =
            (IF IsShared /\ rin.d.Domain # <<"cdp">> THEN <<"cdp", ".">>
             ELSE IF TargetDomain # rin.d.Domain THEN ToLower(TargetDomain) \o <<".">>
             ELSE EmptyStr) \o ForceCamelIdentifier(BareName)

\* C8: the display name is the identifier-cased bare name, prefixed, when the
\* pair is shared, with `cdp.` exactly when the current domain is not cdp
\* (and with nothing when it is), and, when the pair is not shared, with the
\* lowercase target domain and a dot exactly when the target domain differs
\* from the current one.
C8_DisplayName ==
    Resolved =>
        rout.r.name =
            (IF IsShared
             THEN (IF rin.d.Domain # <<"cdp">> THEN <<"cdp", ".">> ELSE EmptyStr)
             ELSE IF TargetDomain # rin.d.Domain THEN ToLower(TargetDomain) \o <<".">>
             ELSE EmptyStr) \o ForceCamelIdentifier(BareName)

\* a shared type of DOM resolved from cdp
C8_Witness ==
    /\ Resolved
    /\ IsShared
    /\ rin.d.Domain = <<"cdp">>
    /\ TargetDomain = <<"DOM">>
    /\ rout.r.name = <<"Node", "ID">>

\* whether s holds sub as a substring
Contains(s, sub) ==
    \E k \in 0..(Len(s) - Len(sub)) : SubSeq(s, k + 1, k + Len(sub)) = sub

\* whether some domain of the list is named as the target and holds a type
\* with the bare name
TargetHoldsType ==
    \E z \in 1..Len(rin.domains) :
        /\ rin.domains[z].Domain = TargetDomain
        /\ \E j \in 1..Len(rin.domains[z].Types) : rin.domains[z].Types[j].Name = BareName

\* C9: Resolve never returns a nil type: when the target domain is absent
\* from the list or holds no type with the bare name, Resolve panics with a
\* message that names the reference and the requesting domain; and the type
\* it returns otherwise is a type of the list, named by the bare name, in a
\* domain named as the target.
C9_UnresolvedPanics ==
    rout.set =>
        /\ ~TargetHoldsType =>
              /\ rout.r.panic
              /\ Contains(rout.r.msg, rin.ref)
              /\ Contains(rout.r.msg, rin.d.Domain)
        /\ ~rout.r.panic =>
              /\ rout.r.z \in 1..Len(rin.domains)
              /\ rout.r.j \in 1..Len(rin.domains[rout.r.z].Types)
              /\ rin.domains[rout.r.z].Domain = TargetDomain
              /\ rin.domains[rout.r.z].Types[rout.r.j].Name = BareName

\* the reference NoSuchDomain.Nothing has made Resolve panic
C9_Witness ==
    /\ rout.set
    /\ rin.ref = <<"NoSuchDomain", ".", "Nothing">>
    /\ rout.r.panic
    /\ rout.r.msg = <<"could not resolve type ", "NoSuchDomain", ".", "Nothing",
                      " in domain ">> \o rin.d.Domain

\* C28: Resolve of package pdl and Resolve of package gotpl fail on the same
\* calls, with the same message, and return the same target domain, the same
\* type and the same display name on the others.
C28_BothResolveAgree ==
    rout.set =>
        /\ rout.g.panic = rout.r.panic
        /\ rout.g.msg = rout.r.msg
        /\ rout.g.dtyp = rout.r.dtyp
        /\ rout.g.z = rout.r.z
        /\ rout.g.j = rout.r.j
        /\ rout.g.name = rout.r.name

\* both have resolved DOM.NodeId for domain Page to the type of domain DOM,
\* under the display name dom.NodeID
C28_Witness ==
    /\ rout.set
    /\ rin.ref = <<"DOM", ".", "Node", "Id">>
    /\ rin.d.Domain = <<"Page">>
    /\ rin.sharedFunc = {}
    /\ ~rout.r.panic /\ ~rout.g.panic
    /\ rout.g.dtyp = <<"DOM">>
    /\ rin.domains[rout.g.z].Types[rout.g.j].Name = <<"Node", "Id">>
    /\ rout.g.name = <<"dom", ".", "Node", "ID">>
    /\ rout.r.name = <<"dom", ".", "Node", "ID">>

\* the domains of the list named as the target, and the first of them
TargetPlaces == {z \in 1..Len(rin.domains) : rin.domains[z].Domain = TargetDomain}
FirstTargetPlace == CHOOSE z \in TargetPlaces : \A y \in TargetPlaces : z <= y

\* whether domain z of the list holds a type with the bare name
HoldsBareName(z) ==
    \E j \in 1..Len(rin.domains[z].Types) : rin.domains[z].Types[j].Name = BareName

\* C29: Resolve looks for the bare name in the first domain of the list
\* named as the target and in no other: when that domain holds no type of
\* the name Resolve panics, also when a later domain of the same name holds
\* one, and when it holds one Resolve returns a type of that domain, also
\* when a later domain of the same name holds one too.
C29_OnlyFirstDomainOfTheName ==
    (rout.set /\ TargetPlaces # {}) =>
        IF HoldsBareName(FirstTargetPlace)
        THEN ~rout.r.panic /\ rout.r.z = FirstTargetPlace
        ELSE rout.r.panic /\ rout.r.msg =
                <<"could not resolve type ">> \o rin.ref \o <<" in domain ">> \o rin.d.Domain

\* the list holds two domains DOM, and the type Node that only the second
\* one defines has not been resolved
C29_Witness ==
    /\ rout.set
    /\ rin.ref = <<"Node">>
    /\ rin.d.Domain = <<"DOM">>
    /\ Cardinality(TargetPlaces) = 2
    /\ ~HoldsBareName(1)
    /\ HoldsBareName(2)
    /\ rout.r.panic

\* the list holds two domains DOM that both define NodeId, and the type
\* returned is the one of the first
C29_WitnessBoth ==
    /\ rout.set
    /\ rin.ref = <<"Node", "Id">>
    /\ rin.d.Domain = <<"DOM">>
    /\ Cardinality(TargetPlaces) = 2
    /\ HoldsBareName(1)
    /\ HoldsBareName(2)
    /\ ~rout.r.panic
    /\ rout.r.z = 1
    /\ rout.r.j = 2

----------------------------------------------------------------------------
(* The properties of FixDomains *)

\* FixDomains has returned
FixDone == forig # <<>> /\ fi > Len(fdomains)

\* whether a type is exposed and resolved
Exposed(t) == ~t.NoExpose /\ ~t.NoResolve

\* the name of a type of domain dn after the renamings that FixDomains
\* applies before it removes stuttering
RenamedFirst(dn, n) ==
    IF dn = <<"CSS">> /\ n = <<"CSS", "ComputedStyleProperty">> THEN <<"ComputedProperty">>
    ELSE IF dn = <<"Accessibility">> THEN RemoveAll(n, "AX")
    ELSE n

\* name n with the prefix dn stripped, unless that gives the empty name
Stripped(dn, n) == IF TrimPrefix(n, dn) = EmptyStr THEN n ELSE TrimPrefix(n, dn)

\* the parsed types whose name begins with the name of their domain
Stuttering ==
    { x \in UNION { { [d |-> d, j |-> j] : j \in 1..Len(forig[d].Types) } :
                      d \in 1..Len(forig) } :
        /\ Exposed(forig[x.d].Types[x.j])
        /\ HasPrefix(forig[x.d].Types[x.j].Name, forig[x.d].Domain) }

\* C5 as stated: every exposed, resolved type whose parsed name begins with
\* the name of its domain is named by its parsed name with the prefix
\* stripped, or unchanged when stripping would give the empty name
C5_StutteringRemovedAsStated ==
    FixDone =>
        \A x \in Stuttering :
            fdomains[x.d].Types[x.j].Name =
                Stripped(forig[x.d].Domain, forig[x.d].Types[x.j].Name)

\* C5: every exposed, resolved type whose parsed name begins with the name of
\* its domain is named by its parsed name with the prefix stripped (unchanged
\* when stripping would give the empty name), where the prefix is stripped
\* from ComputedProperty for CSSComputedStyleProperty of CSS, and, in
\* Accessibility, from the parsed name with every AX removed.
C5_StutteringRemoved ==
    FixDone =>
        \A x \in Stuttering :
            fdomains[x.d].Types[x.j].Name =
                Stripped(forig[x.d].Domain,
                         RenamedFirst(forig[x.d].Domain, forig[x.d].Types[x.j].Name))

\* the type CSSBar of CSS is named Bar, or the type CSS of CSS is still CSS
C5_Witness ==
    /\ FixDone
    /\ forig[1].Domain = <<"CSS">>
    /\ \/ forig[1].Types[1].Name = <<"CSS", "Bar">> /\ fdomains[1].Types[1].Name = <<"Bar">>
       \/ forig[1].Types[1].Name = <<"CSS">> /\ fdomains[1].Types[1].Name = <<"CSS">>

\* the members of a model: member m of the field of element i of a list of
\* domain d
Members(ds, fields) ==
    UNION { UNION { UNION { UNION {
        { [d |-> d, list |-> l, i |-> i, field |-> f, m |-> m] :
            m \in 1..Len(ds[d][l][i][f].s) } :
        f \in fields } :
        i \in 1..Len(ds[d][l]) } :
        l \in {"Types", "Commands", "Events"} } :
        d \in 1..Len(ds) }

MemberAt(ds, x) == ds[x.d][x.list][x.i][x.field].s[x.m]

\* whether type t of the domain holds all the literals of member m0
HoldsLiterals(t, m0) ==
    \A k \in 1..Len(m0.Enum.s) : \E j \in 1..Len(t.Enum.s) : t.Enum.s[j] = m0.Enum.s[k]

\* C6: every property and parameter parsed with a non-empty literal list
\* keeps no inline list and is a reference to a type of its domain whose Enum
\* holds all of its literals.
C6_EnumMembersBecomeReferences ==
    FixDone =>
        \A x \in Members(forig, {"Properties", "Parameters"}) :
            MemberAt(forig, x).Enum.s # <<>> =>
                /\ MemberAt(fdomains, x).Enum.s = <<>>
                /\ MemberAt(fdomains, x).Ref # EmptyStr
                /\ \E j \in 1..Len(fdomains[x.d].Types) :
                      /\ fdomains[x.d].Types[j].Name = MemberAt(fdomains, x).Ref
                      /\ HoldsLiterals(fdomains[x.d].Types[j], MemberAt(forig, x))

\* the reference of a type or member: its own, or that of its array items
RefOf(t) == IF t.Items # <<>> THEN t.Items[1].Ref ELSE t.Ref

\* the types and members of a model that hold a reference to resolve
RefSites(ds) ==
    { x \in Members(ds, {"Properties", "Parameters", "Returns"}) :
        Exposed(MemberAt(ds, x)) /\ RefOf(MemberAt(ds, x)) # EmptyStr }
TypeSites(ds) ==
    { x \in UNION { { [d |-> d, j |-> j] : j \in 1..Len(ds[d].Types) } : d \in 1..Len(ds) } :
        Exposed(ds[x.d].Types[x.j]) /\ RefOf(ds[x.d].Types[x.j]) # EmptyStr }

\* whether reference ref of domain d resolves in ds, and to type j of domain z
ResolvesTo(ref, d, ds, r0) ==
    /\ ~Resolve(ref, ds[d], ds, {}).panic
    /\ Resolve(ref, ds[d], ds, {}).z = r0.z
    /\ Resolve(ref, ds[d], ds, {}).j = r0.j

\* whether every reference of the model resolves
AllResolve(ds) ==
    /\ \A x \in RefSites(ds) : ~Resolve(RefOf(MemberAt(ds, x)), ds[x.d], ds, {}).panic
    /\ \A x \in TypeSites(ds) : ~Resolve(RefOf(ds[x.d].Types[x.j]), ds[x.d], ds, {}).panic

\* C7: when every reference resolved before FixDomains, every reference of
\* a member, of an array item and of a top-level type still resolves after
\* it, to the type it designated before.
C7_ReferencesStillResolve ==
    (FixDone /\ AllResolve(forig)) =>
        /\ \A x \in RefSites(forig) :
              ResolvesTo(RefOf(MemberAt(fdomains, x)), x.d, fdomains,
                         Resolve(RefOf(MemberAt(forig, x)), forig[x.d], forig, {}))
        /\ \A x \in TypeSites(forig) :
              ResolvesTo(RefOf(fdomains[x.d].Types[x.j]), x.d, fdomains,
                         Resolve(RefOf(forig[x.d].Types[x.j]), forig[x.d], forig, {}))

\* the outcome r of Resolve on the domains ds is the type Modifier of Input
IsInputModifier(r, ds) ==
    /\ ~r.panic
    /\ r.dtyp = <<"Input">>
    /\ ds[r.z].Types[r.j].Name = <<"Modifier">>

\* C26: after FixDomains the reference of every property, parameter or
\* return named modifiers that is neither an array nor an enum resolves, from
\* the domain of the member, to the type Modifier of domain Input.
C26_ModifiersIsInputModifier ==
    FixDone =>
        \A x \in Members(forig, {"Properties", "Parameters", "Returns"}) :
            ( /\ MemberAt(forig, x).Name = <<"modifiers">>
              /\ MemberAt(forig, x).Items = <<>>
              /\ MemberAt(forig, x).Enum.nil )
            => IsInputModifier(Resolve(MemberAt(fdomains, x).Ref, fdomains[x.d], fdomains, {}),
                               fdomains)

\* the parsed types of a kind that is not string and without enum literals
NotEnums ==
    { x \in UNION { { [d |-> d, j |-> j] : j \in 1..Len(forig[d].Types) } :
                      d \in 1..Len(forig) } :
        /\ forig[x.d].Types[x.j].Type # TypeString
        /\ forig[x.d].Types[x.j].Enum.s = <<>> }

\* C18: FixDomains does not add promoted enum literals to a type whose kind is
\* incompatible with them: when it returns, every parsed type that is no
\* string enum is still without literals.
C18_NoLiteralsOnOtherKinds ==
    FixDone => \A x \in NotEnums : fdomains[x.d].Types[x.j].Enum.s = <<>>

----------------------------------------------------------------------------
(* The properties of the file cacher *)

\* at the last call the file was there, the ttl was not 0 and the time was
\* not after the modification time of the file plus the ttl
Fresh ==
    /\ got.call.before.exists
    /\ got.call.ttl # 0
    /\ now <= got.call.before.mtime + got.call.ttl

\* the body the remote sent, decoded when the call asked for it
Body ==
    IF got.call.b64Decode THEN DecodeString(got.call.remote.body)
    ELSE [ok |-> TRUE, buf |-> got.call.remote.body]

----------------------------------------------------------------------------
(* The properties of enum promotion *)

\* the name that the enum property p of type t of domain d is promoted to
TargetName(d, t, p) ==
    EnumRef(TrimSuffix(d.Domain \o <<".">> \o t.Name \o <<".">> \o p.Name, <<".">>), t.Name, p)

\* the literals of the enum properties of type t that are promoted to name n
PropertyLiterals(d, t, n) ==
    Concat([k \in 1..Len(t.Properties.s) |->
        IF /\ ~t.Properties.s[k].Enum.nil
           /\ t.Properties.s[k].Items = <<>>
           /\ TargetName(d, t, t.Properties.s[k]) = n
        THEN t.Properties.s[k].Enum.s ELSE <<>>])

\* the literals promoted to name n in domain d, in the order of the promotions
Promoted(d, n) == Concat([k \in 1..Len(d.Types) |-> PropertyLiterals(d, d.Types[k], n)])

\* the first place of literal z in the sequence s
FirstPlace(s, z) == CHOOSE i \in 1..Len(s) : s[i] = z /\ \A j \in 1..(i - 1) : s[j] # z

\* r holds every literal of `all` once, in the order of their first places
OrderedUnion(all, r) ==
    /\ {r[i] : i \in 1..Len(r)} = {all[i] : i \in 1..Len(all)}
    /\ \A i, j \in 1..Len(r) : i < j => FirstPlace(all, r[i]) < FirstPlace(all, r[j])

\* the parsed types that enum properties of their domain are promoted to
PromotionTargets ==
    { x \in UNION { { [d |-> d, j |-> j] : j \in 1..Len(forig[d].Types) } :
                      d \in 1..Len(forig) } :
        Promoted(forig[x.d], forig[x.d].Types[x.j].Name) # <<>> }

\* C24: when enum promotion targets a name that a type of the domain bears,
\* the domain holds one type of that name afterwards, and the Enum of the
\* type is its literals in their order followed by the promoted literals it
\* did not hold, in their order, each once; literals promoted twice over
\* are there once.
C24_PromotionMergesIntoExisting ==
    FixDone =>
        \A x \in PromotionTargets :
            /\ Cardinality({k \in 1..Len(fdomains[x.d].Types) :
                    fdomains[x.d].Types[k].Name = fdomains[x.d].Types[x.j].Name}) = 1
            /\ OrderedUnion(forig[x.d].Types[x.j].Enum.s
                                \o Promoted(forig[x.d], forig[x.d].Types[x.j].Name),
                            fdomains[x.d].Types[x.j].Enum.s)

\* the literals a, b promoted twice to the type that holds b, c
C24_Witness ==
    /\ FixDone
    /\ forig = Parse(PromotionText(2)).model.pdl.Domains
    /\ [d |-> 1, j |-> 1] \in PromotionTargets
    /\ fdomains[1].Types[1].Enum.s = << <<"b">>, <<"c">>, <<"a">> >>

----------------------------------------------------------------------------
(* The properties of run and cleanupTypes *)

\* the places of the list `src` whose entry is neither deprecated nor redirected
KeptPlaces(src) == {i \in 1..Len(src) : ~src[i].Deprecated /\ src[i].Redirect.nil}

\* the k-th smallest number of the set S
Kth(S, k) == CHOOSE i \in S : Cardinality({j \in S : j <= i}) = k

\* `res` is the entries of `src` that are neither deprecated nor redirected,
\* in the order of `src`, as they are
MembersFiltered(src, res) ==
    /\ Len(res) = Cardinality(KeptPlaces(src))
    /\ \A k \in 1..Len(res) : res[k] = src[Kth(KeptPlaces(src), k)]

\* the member list b is the member list a filtered; a nil list stays nil
FieldFiltered(a, b) == IF a.nil THEN b.nil ELSE MembersFiltered(a.s, b.s)

\* tnew is told with its three member lists filtered, and nothing else changed
TypeCleaned(told, tnew) ==
    /\ [tnew EXCEPT !.Properties = NilSlice, !.Parameters = NilSlice, !.Returns = NilSlice]
         = [told EXCEPT !.Properties = NilSlice, !.Parameters = NilSlice, !.Returns = NilSlice]
    /\ FieldFiltered(told.Properties, tnew.Properties)
    /\ FieldFiltered(told.Parameters, tnew.Parameters)
    /\ FieldFiltered(told.Returns, tnew.Returns)

\* `res` is the types of `src` that are neither deprecated nor redirected, in
\* the order of `src`, each with its member lists filtered
TypesFiltered(src, res) ==
    /\ Len(res) = Cardinality(KeptPlaces(src))
    /\ \A k \in 1..Len(res) : TypeCleaned(src[Kth(KeptPlaces(src), k)], res[k])

\* the loaded domains that the loop of run has passed and kept
PassedDomains == {i \in 1..(ri - 1) : i <= Len(protoDefs) /\ ~protoDefs[i].Deprecated}

\* the loop of run is over, and FixDomains has not been called yet
RunCleaned == protoDefs # <<>> /\ ri = Len(protoDefs) + 1

\* C27: the Types, Events and Commands of every processed domain are, in
\* the order of the loaded lists, the loaded entries that are neither
\* deprecated nor redirected, each with its Properties, Parameters and
\* Returns filtered in the same way and with nothing else changed.
C27_CleanupKeepsTheRest ==
    ri <= Len(protoDefs) + 1 =>
        /\ Len(processed) = Cardinality(PassedDomains)
        /\ \A k \in 1..Len(processed) :
            /\ processed[k].Domain = protoDefs[Kth(PassedDomains, k)].Domain
            /\ \A list \in {"Types", "Events", "Commands"} :
                 TypesFiltered(protoDefs[Kth(PassedDomains, k)][list], processed[k][list])

\* the deprecated type T, the deprecated property r and the redirected
\* command c of domain A are gone, the type Holder and its property x are kept
C27_Witness ==
    /\ RunCleaned
    /\ Len(processed) = 2
    /\ Len(protoDefs[1].Types) = 2
    /\ protoDefs[1].Types[1].Deprecated
    /\ Len(protoDefs[1].Types[2].Properties.s) = 2
    /\ Len(protoDefs[1].Commands) = 1
    /\ Len(processed[1].Types) = 1
    /\ processed[1].Types[1].Name = <<"Holder">>
    /\ Len(processed[1].Types[1].Properties.s) = 1
    /\ processed[1].Types[1].Properties.s[1].Name = <<"x">>
    /\ processed[1].Commands = <<>>

\* the loop of run is over, whether FixDomains has been called or not
RunLoopDone == protoDefs # <<>> /\ ri > Len(protoDefs)

\* C30: when every reference of the loaded model resolved, every reference
\* held by a type or member that run and cleanupTypes left in the processed
\* domains resolves among the processed domains.
C30_RemainingReferencesResolve ==
    (RunLoopDone /\ AllResolve(protoDefs)) => AllResolve(processed)

====
